---- MODULE Spec2Model ----
(***************************************************************************)
(* A model of the Pintos file system of this repository: the indexed       *)
(* on-disk inode (filesys/inode.c), the table of open inodes, the path     *)
(* resolver and top-level operations (filesys/filesys.c) and the system    *)
(* call wrappers (userprog/syscall.c).                                     *)
(*                                                                         *)
(* The device is an array of sectors.  A sector holds BLOCK_SECTOR_SIZE    *)
(* words; one word is the unit of file data and also holds one sector      *)
(* pointer, so an index block has INDIR_BLOCK_PTRS = BLOCK_SECTOR_SIZE     *)
(* pointers.  The geometry (BLOCK_SECTOR_SIZE, DIR_BLOCKS) is scaled down  *)
(* from 512 and 12; the algorithms are those of the source.                *)
(***************************************************************************)
EXTENDS Integers, Sequences, FiniteSets, TLC

(***************************************************************************)
(* Geometry and bounds.                                                    *)
(***************************************************************************)
BLOCK_SECTOR_SIZE == 3
DIR_BLOCKS == 2
INDIR_BLOCKS == 1
DINDIR_BLOCKS == 1
INDIR_BLOCK_PTRS == BLOCK_SECTOR_SIZE
INODE_MAGIC == 1229868868
FREE_MAP_SECTOR == 0
ROOT_DIR_SECTOR == 1
NO_SECTOR == -1
SYSCALL_ERROR == -1

\* The sizes of the devices the file system is mounted on: one that holds a
\* file of the maximum size, and one that a single file exhausts.
NumSectors == 24
SmallNumSectors == 10
InitialDirEntries == 2
DirEntrySize == 1

\* block_size (fs_device): the sectors of the device.
SectorsOf(m) == DOMAIN m.disk

Min2(a, b) == IF a < b THEN a ELSE b
SetMin(S) == CHOOSE x \in S : \A y \in S : x <= y
Zeros == [i \in 1 .. BLOCK_SECTOR_SIZE |-> 0]
Pad(w, n) == [i \in 1 .. n |-> IF i <= Len(w) THEN w[i] ELSE 0]

\* (12 + 128 + 128*128) * 512 in the source's geometry.
MaxFileSectors == DIR_BLOCKS + INDIR_BLOCK_PTRS * INDIR_BLOCKS
                  + INDIR_BLOCK_PTRS * INDIR_BLOCK_PTRS * DINDIR_BLOCKS
MaxFileSize == MaxFileSectors * BLOCK_SECTOR_SIZE

(***************************************************************************)
(* The machine state threaded through the operations:                      *)
(*   disk     : sector -> the words last written to it                     *)
(*   free_map : sector -> TRUE when marked used                            *)
(*   panic    : TRUE once the kernel has panicked (an access past the end  *)
(*              of the device)                                             *)
(***************************************************************************)

\* block_write (fs_device, sector, buffer)
block_write(m, s, words) ==
  IF s \in SectorsOf(m)
  THEN [m EXCEPT !.disk[s] = words]
  ELSE [m EXCEPT !.panic = TRUE]

\* block_read (fs_device, sector, buffer): the words of the sector.
block_read(m, s) == IF s \in SectorsOf(m) THEN m.disk[s] ELSE Zeros

\* The check_sector of the device: a read past the end panics too.
read_check(m, s) ==
  IF s \in SectorsOf(m) THEN m ELSE [m EXCEPT !.panic = TRUE]

\* A sector read as a struct indir_block.
ReadPtrs(m, s) == Pad(block_read(m, s), INDIR_BLOCK_PTRS)
\* A sector read as file data.
ReadData(m, s) == Pad(block_read(m, s), BLOCK_SECTOR_SIZE)

(***************************************************************************)
(* Free-map: first-fit allocation of one sector, release of one sector.    *)
(***************************************************************************)
FreeSectors(m) == {s \in SectorsOf(m) : ~m.free_map[s]}

free_map_allocate(m) ==
  IF FreeSectors(m) = {}
  THEN [m |-> m, ok |-> FALSE, sector |-> NO_SECTOR]
  ELSE LET s == SetMin(FreeSectors(m))
       IN [m |-> [m EXCEPT !.free_map[s] = TRUE], ok |-> TRUE, sector |-> s]

free_map_release(m, s) ==
  IF s \in SectorsOf(m)
  THEN [m EXCEPT !.free_map[s] = FALSE]
  ELSE [m EXCEPT !.panic = TRUE]

(***************************************************************************)
(* struct inode_disk and its layout in a sector.                           *)
(***************************************************************************)
EmptyDinode ==
  [length |-> 0, magic |-> 0, sector |-> 0, isdir |-> FALSE,
   dir_cnt |-> 0, direct |-> [i \in 1 .. DIR_BLOCKS |-> 0],
   indir_cnt |-> 0, indir_curr_usage |-> 0,
   indirect |-> [i \in 1 .. INDIR_BLOCKS |-> 0],
   dindir_cnt |-> 0, dindir_curr_usage |-> 0, dindir_lv2_curr_usage |-> 0,
   dindirect |-> [i \in 1 .. DINDIR_BLOCKS |-> 0]]

InodeWords(d) ==
  <<d.length, d.magic, d.sector, IF d.isdir THEN 1 ELSE 0, d.dir_cnt>>
  \o d.direct \o <<d.indir_cnt, d.indir_curr_usage>> \o d.indirect
  \o <<d.dindir_cnt, d.dindir_curr_usage, d.dindir_lv2_curr_usage>>
  \o d.dindirect

InodeRecordLen == 10 + DIR_BLOCKS + INDIR_BLOCKS + DINDIR_BLOCKS

WordsToInode(words) ==
  LET w == Pad(words, InodeRecordLen)
      a == 5 + DIR_BLOCKS
      b == a + 2 + INDIR_BLOCKS
  IN [length |-> w[1], magic |-> w[2], sector |-> w[3], isdir |-> w[4] # 0,
      dir_cnt |-> w[5], direct |-> [i \in 1 .. DIR_BLOCKS |-> w[5 + i]],
      indir_cnt |-> w[a + 1], indir_curr_usage |-> w[a + 2],
      indirect |-> [i \in 1 .. INDIR_BLOCKS |-> w[a + 2 + i]],
      dindir_cnt |-> w[b + 1], dindir_curr_usage |-> w[b + 2],
      dindir_lv2_curr_usage |-> w[b + 3],
      dindirect |-> [i \in 1 .. DINDIR_BLOCKS |-> w[b + 3 + i]]]

bytes_to_total_sectors(size) ==
  (size + BLOCK_SECTOR_SIZE - 1) \div BLOCK_SECTOR_SIZE

(***************************************************************************)
(* byte_to_sector: the sector holding byte POS of the inode, NO_SECTOR     *)
(* when there is none.  "panic" reports a read of an index block past the  *)
(* end of the device.                                                      *)
(***************************************************************************)
\* A test that takes the position just past the last byte for one of the
\* file.
HasByteAt_PastEnd(d, pos) == pos <= d.length /\ pos >= 0

\* if (pos < inode->data.length && pos >= 0)
HasByteAt(d, pos) == pos < d.length /\ pos >= 0

byte_to_sector(m, d, pos) ==
  IF HasByteAt(d, pos)
  THEN IF pos < BLOCK_SECTOR_SIZE * DIR_BLOCKS
       THEN [sector |-> d.direct[(pos \div BLOCK_SECTOR_SIZE) + 1],
             panic |-> FALSE]
       ELSE IF pos < BLOCK_SECTOR_SIZE
                     * (DIR_BLOCKS + INDIR_BLOCK_PTRS * INDIR_BLOCKS)
       THEN LET p == pos - BLOCK_SECTOR_SIZE * DIR_BLOCKS
                indir_idx == p \div (BLOCK_SECTOR_SIZE * INDIR_BLOCK_PTRS)
                s1 == d.indirect[indir_idx + 1]
                indir_block == ReadPtrs(m, s1)
                p2 == p % (BLOCK_SECTOR_SIZE * INDIR_BLOCK_PTRS)
            IN [sector |-> indir_block[(p2 \div BLOCK_SECTOR_SIZE) + 1],
                panic |-> s1 \notin SectorsOf(m)]
       ELSE LET p == pos - BLOCK_SECTOR_SIZE
                           * (DIR_BLOCKS + INDIR_BLOCK_PTRS * INDIR_BLOCKS)
                indir_idx == p \div (BLOCK_SECTOR_SIZE * INDIR_BLOCK_PTRS
                                     * INDIR_BLOCK_PTRS)
            IN IF indir_idx < DINDIR_BLOCKS
               THEN LET s1 == d.dindirect[indir_idx + 1]
                        d_block == ReadPtrs(m, s1)
                        p2 == p % (BLOCK_SECTOR_SIZE * INDIR_BLOCK_PTRS
                                   * INDIR_BLOCK_PTRS)
                        idx2 == p2 \div (BLOCK_SECTOR_SIZE * INDIR_BLOCK_PTRS)
                        indir_ptr == d_block[idx2 + 1]
                        indir_block == ReadPtrs(m, indir_ptr)
                        p3 == p2 % (BLOCK_SECTOR_SIZE * INDIR_BLOCK_PTRS)
                    IN [sector |-> indir_block[(p3 \div BLOCK_SECTOR_SIZE) + 1],
                        panic |-> s1 \notin SectorsOf(m)
                                  \/ indir_ptr \notin SectorsOf(m)]
               ELSE [sector |-> NO_SECTOR, panic |-> FALSE]
  ELSE [sector |-> NO_SECTOR, panic |-> FALSE]

(***************************************************************************)
(* dinode_extend.  The loops work on e = [m, d, n, done]: the machine, the  *)
(* inode_disk being grown, new_data_sectors still to allocate, and whether  *)
(* the code has taken "goto done".  new_data_sectors is not 0 when a loop   *)
(* is entered, so the tests "if (new_data_sectors == 0)" that end a pass    *)
(* are made at the head of the next one.                                    *)
(***************************************************************************)

\* free_map_allocate (1, &ptr) with its result ignored: on failure the
\* pointer keeps the value it had.
Allocated(a, old) == [m |-> a.m, ptr |-> IF a.ok THEN a.sector ELSE old]
AllocInto(m, old) == Allocated(free_map_allocate(m), old)

\* One pass of the direct loop; a is what its free_map_allocate gave.
DirectPass(e, a) ==
  [m |-> block_write(a.m, a.ptr, Zeros),
   d |-> [e.d EXCEPT !.dir_cnt = @ + 1, !.direct[e.d.dir_cnt + 1] = a.ptr],
   n |-> e.n - 1, done |-> (e.n - 1 = 0)]

\* while (dinode->dir_cnt < DIR_BLOCKS)
RECURSIVE ExtendDirect(_)
ExtendDirect(e) ==
  IF ~e.done /\ e.d.dir_cnt < DIR_BLOCKS
  THEN ExtendDirect(DirectPass(e, AllocInto(e.m, e.d.direct[e.d.dir_cnt + 1])))
  ELSE e

\* An index block being filled: f = [m, d, n, ptr, block, ptr2, block2].
\* ptr and block are the sector and the in-memory copy of the indirect block
\* (of d_block in the double-indirect loop); ptr2 and block2 those of the
\* level 2 block.
IndexBlock(m, d, n, ptr) ==
  [m |-> read_check(m, ptr), d |-> d, n |-> n, ptr |-> ptr,
   block |-> ReadPtrs(m, ptr), ptr2 |-> 0, block2 |-> Zeros]

\* if (dinode->indir_cnt == 0 || dinode->indir_curr_usage == INDIR_BLOCK_PTRS)
IndirNew(e, a) ==
  IndexBlock(a.m,
             [e.d EXCEPT !.indir_cnt = @ + 1,
                         !.indirect[e.d.indir_cnt + 1] = a.ptr,
                         !.indir_curr_usage = 0],
             e.n, a.ptr)

IndirHead(e) ==
  IF e.d.indir_cnt = 0 \/ e.d.indir_curr_usage = INDIR_BLOCK_PTRS
  THEN IndirNew(e, AllocInto(e.m, e.d.indirect[e.d.indir_cnt + 1]))
  ELSE IndexBlock(e.m, e.d, e.n, e.d.indirect[e.d.indir_cnt])

IndirBlockPass(f, a) ==
  [f EXCEPT !.m = block_write(a.m, a.ptr, Zeros),
            !.d.indir_curr_usage = @ + 1,
            !.n = @ - 1,
            !.block[f.d.indir_curr_usage + 1] = a.ptr]

\* while (dinode->indir_curr_usage < INDIR_BLOCK_PTRS)
RECURSIVE ExtendIndirBlock(_)
ExtendIndirBlock(f) ==
  IF f.n # 0 /\ f.d.indir_curr_usage < INDIR_BLOCK_PTRS
  THEN ExtendIndirBlock(
         IndirBlockPass(f, AllocInto(f.m, f.block[f.d.indir_curr_usage + 1])))
  ELSE f

\* The write-back of the index block that ends a pass of an outer loop.
IndexTail(f) ==
  [m |-> block_write(f.m, f.ptr, f.block), d |-> f.d, n |-> f.n,
   done |-> (f.n = 0)]

\* while (dinode->indir_cnt < INDIR_BLOCKS)
RECURSIVE ExtendIndirect(_)
ExtendIndirect(e) ==
  IF ~e.done /\ e.d.indir_cnt < INDIR_BLOCKS
  THEN ExtendIndirect(IndexTail(ExtendIndirBlock(IndirHead(e))))
  ELSE e

\* if (dinode->dindir_cnt == 0 || dinode->dindir_curr_usage == INDIR_BLOCK_PTRS)
DindirNew(e, a) ==
  IndexBlock(a.m,
             [e.d EXCEPT !.dindir_cnt = @ + 1,
                         !.dindirect[e.d.dindir_cnt + 1] = a.ptr,
                         !.dindir_curr_usage = 0],
             e.n, a.ptr)

DindirHead(e) ==
  IF e.d.dindir_cnt = 0 \/ e.d.dindir_curr_usage = INDIR_BLOCK_PTRS
  THEN DindirNew(e, AllocInto(e.m, e.d.dindirect[e.d.dindir_cnt + 1]))
  ELSE IndexBlock(e.m, e.d, e.n, e.d.dindirect[e.d.dindir_cnt])

\* if (dinode->dindir_curr_usage == 0
\*     || dinode->dindir_lv2_curr_usage == INDIR_BLOCK_PTRS)
Lv2New(f, a) ==
  [f EXCEPT !.m = read_check(a.m, a.ptr),
            !.d.dindir_curr_usage = @ + 1,
            !.d.dindir_lv2_curr_usage = 0,
            !.block[f.d.dindir_curr_usage + 1] = a.ptr,
            !.ptr2 = a.ptr,
            !.block2 = ReadPtrs(a.m, a.ptr)]

Lv2Old(f, ptr) ==
  [f EXCEPT !.m = read_check(f.m, ptr), !.ptr2 = ptr,
            !.block2 = ReadPtrs(f.m, ptr)]

Lv2Head(f) ==
  IF f.d.dindir_curr_usage = 0 \/ f.d.dindir_lv2_curr_usage = INDIR_BLOCK_PTRS
  THEN Lv2New(f, AllocInto(f.m, f.block[f.d.dindir_curr_usage + 1]))
  ELSE Lv2Old(f, f.block[f.d.dindir_curr_usage])

Lv2Pass(f, a) ==
  [f EXCEPT !.m = block_write(a.m, a.ptr, Zeros),
            !.d.dindir_lv2_curr_usage = @ + 1,
            !.n = @ - 1,
            !.block2[f.d.dindir_lv2_curr_usage + 1] = a.ptr]

\* while (dinode->dindir_lv2_curr_usage < INDIR_BLOCK_PTRS)
RECURSIVE ExtendLv2Block(_)
ExtendLv2Block(f) ==
  IF f.n # 0 /\ f.d.dindir_lv2_curr_usage < INDIR_BLOCK_PTRS
  THEN ExtendLv2Block(
         Lv2Pass(f, AllocInto(f.m, f.block2[f.d.dindir_lv2_curr_usage + 1])))
  ELSE f

\* writing back the level 2 block
Lv2Tail(f) == [f EXCEPT !.m = block_write(f.m, f.ptr2, f.block2)]

\* A faulty bound of the level 1 loop that stops one level 2 block short.
Lv1HasRoom_Short(d) == d.dindir_curr_usage < INDIR_BLOCK_PTRS - 1

\* while (dinode->dindir_curr_usage < INDIR_BLOCK_PTRS)
Lv1HasRoom(d) == d.dindir_curr_usage < INDIR_BLOCK_PTRS

RECURSIVE ExtendLv1Block(_)
ExtendLv1Block(f) ==
  IF f.n # 0 /\ Lv1HasRoom(f.d)
  THEN ExtendLv1Block(Lv2Tail(ExtendLv2Block(Lv2Head(f))))
  ELSE f

\* while (dinode->dindir_cnt < DINDIR_BLOCKS)
RECURSIVE ExtendDindirect(_)
ExtendDindirect(e) ==
  IF ~e.done /\ e.d.dindir_cnt < DINDIR_BLOCKS
  THEN ExtendDindirect(IndexTail(ExtendLv1Block(DindirHead(e))))
  ELSE e

\* new_data_sectors, and "if (new_data_sectors == 0) goto done;"
ExtendStart(m, d, new_length) ==
  [m |-> m, d |-> d,
   n |-> bytes_to_total_sectors(new_length)
         - bytes_to_total_sectors(d.length),
   done |-> (bytes_to_total_sectors(new_length)
             - bytes_to_total_sectors(d.length) = 0)]

\* A dinode_extend that sets, and returns, the length it was asked for even
\* when it has not reached "done:".
ActualLength_Asked(e, new_length) == new_length

\* The length set at "done:" and on the failure path above it.
ActualLength(e, new_length) ==
  IF e.done THEN new_length ELSE new_length - e.n * BLOCK_SECTOR_SIZE

WriteBack(m, d) == block_write(m, d.sector, InodeWords(d))

ExtendEnd(e, len) ==
  [m |-> WriteBack(e.m, [e.d EXCEPT !.length = len]),
   d |-> [e.d EXCEPT !.length = len], ret |-> len]

ExtendFinish(e, new_length) == ExtendEnd(e, ActualLength(e, new_length))

\* Returns the machine, the inode_disk and the actual new length.
dinode_extend(m, d, new_length) ==
  ExtendFinish(
    ExtendDindirect(ExtendIndirect(ExtendDirect(ExtendStart(m, d, new_length)))),
    new_length)

(***************************************************************************)
(* dinode_free.  The loops work on r = [m, d, rel]: rel is the sequence of  *)
(* sectors handed to free_map_release, in order.                            *)
(***************************************************************************)
Release(r, s) ==
  [r EXCEPT !.m = free_map_release(r.m, s), !.rel = Append(r.rel, s)]

ReadFor(r, s) == [r EXCEPT !.m = read_check(r.m, s)]

DropLv2(r) == [r EXCEPT !.d.dindir_lv2_curr_usage = @ - 1]

\* while (dinode->dindir_lv2_curr_usage != 0)
RECURSIVE FreeLv2Block(_, _)
FreeLv2Block(r, block) ==
  IF r.d.dindir_lv2_curr_usage # 0
  THEN FreeLv2Block(DropLv2(Release(r, block[r.d.dindir_lv2_curr_usage])),
                    block)
  ELSE r

DropLv1(r) ==
  [r EXCEPT !.d.dindir_curr_usage = @ - 1,
            !.d.dindir_lv2_curr_usage =
               IF r.d.dindir_curr_usage - 1 # 0 THEN INDIR_BLOCK_PTRS ELSE @]

Lv1Pass(r, s) ==
  DropLv1(Release(FreeLv2Block(ReadFor(r, s), ReadPtrs(r.m, s)), s))

\* while (dinode->dindir_curr_usage != 0)
RECURSIVE FreeLv1Block(_, _)
FreeLv1Block(r, d_block) ==
  IF r.d.dindir_curr_usage # 0
  THEN FreeLv1Block(Lv1Pass(r, d_block[r.d.dindir_curr_usage]), d_block)
  ELSE r

DropDindir(r) ==
  [r EXCEPT !.d.dindir_cnt = @ - 1,
            !.d.dindir_curr_usage =
               IF r.d.dindir_cnt - 1 # 0 THEN INDIR_BLOCK_PTRS ELSE @]

DindirPass(r, s) ==
  DropDindir(Release(FreeLv1Block(ReadFor(r, s), ReadPtrs(r.m, s)), s))

\* while (dinode->dindir_cnt != 0)
RECURSIVE FreeDindirect(_)
FreeDindirect(r) ==
  IF r.d.dindir_cnt # 0
  THEN FreeDindirect(DindirPass(r, r.d.dindirect[r.d.dindir_cnt]))
  ELSE r

DropIndirPtr(r) == [r EXCEPT !.d.indir_curr_usage = @ - 1]

\* while (dinode->indir_curr_usage != 0)
RECURSIVE FreeIndirBlock(_, _)
FreeIndirBlock(r, block) ==
  IF r.d.indir_curr_usage # 0
  THEN FreeIndirBlock(DropIndirPtr(Release(r, block[r.d.indir_curr_usage])),
                      block)
  ELSE r

DropIndir(r) ==
  [r EXCEPT !.d.indir_cnt = @ - 1,
            !.d.indir_curr_usage =
               IF r.d.indir_cnt - 1 # 0 THEN INDIR_BLOCK_PTRS ELSE @]

IndirPass(r, s) ==
  DropIndir(Release(FreeIndirBlock(ReadFor(r, s), ReadPtrs(r.m, s)), s))

\* while (dinode->indir_cnt != 0)
RECURSIVE FreeIndirect(_)
FreeIndirect(r) ==
  IF r.d.indir_cnt # 0
  THEN FreeIndirect(IndirPass(r, r.d.indirect[r.d.indir_cnt]))
  ELSE r

DropDirect(r) == [r EXCEPT !.d.dir_cnt = @ - 1]

\* A dinode_free that leaves the direct blocks alone.
FreeDirect_Skip(r) == r

\* while (dinode->dir_cnt != 0)
RECURSIVE FreeDirect(_)
FreeDirect(r) ==
  IF r.d.dir_cnt # 0
  THEN FreeDirect(DropDirect(Release(r, r.d.direct[r.d.dir_cnt])))
  ELSE r

dinode_free(r) == FreeDirect(FreeIndirect(FreeDindirect(r)))

(***************************************************************************)
(* inode_create: the new inode_disk is calloc'ed, so every counter and      *)
(* pointer starts at 0.                                                     *)
(***************************************************************************)
NewDinode(sector, isdir) ==
  [EmptyDinode EXCEPT !.magic = INODE_MAGIC, !.sector = sector,
                      !.isdir = isdir]

\* if (length == dinode_extend (disk_inode, length)) success = true;
Created(x, length) == [m |-> x.m, success |-> (length = x.ret)]

inode_create(m, sector, length, isdir) ==
  Created(dinode_extend(m, NewDinode(sector, isdir), length), length)

(***************************************************************************)
(* The list of open inodes.  An element is a struct inode:                  *)
(*   [id, sector, open_cnt, removed, deny_write_cnt, data]                  *)
(* where id stands for the address malloc returned.  The operations work on *)
(* k = [m, inodes]: the machine and the list.                               *)
(***************************************************************************)
InodeIds(inodes) == {inodes[i].id : i \in 1 .. Len(inodes)}
NewInodeId(inodes) == SetMin((1 .. (Len(inodes) + 1)) \ InodeIds(inodes))
IndexOf(inodes, id) == SetMin({i \in 1 .. Len(inodes) : inodes[i].id = id})
InodeOf(inodes, id) == inodes[IndexOf(inodes, id)]
RemoveAt(q, i) == SubSeq(q, 1, i - 1) \o SubSeq(q, i + 1, Len(q))

\* A faulty scan that never finds the sector: inode_open would then build a
\* second struct inode for an open sector.
FindOpen_Never(inodes, sector) == {}

\* The scan of open_inodes in inode_open: the positions whose sector matches.
FindOpen(inodes, sector) ==
  {i \in 1 .. Len(inodes) : inodes[i].sector = sector}

\* inode_reopen
inode_reopen(k, id) ==
  [k EXCEPT !.inodes[IndexOf(k.inodes, id)].open_cnt = @ + 1]

\* inode_open: returns k and the id of the struct inode.
inode_open(k, sector) ==
  IF FindOpen(k.inodes, sector) # {}
  THEN LET id == k.inodes[SetMin(FindOpen(k.inodes, sector))].id
       IN [k |-> inode_reopen(k, id), id |-> id]
  ELSE LET id == NewInodeId(k.inodes)
           inode == [id |-> id, sector |-> sector, open_cnt |-> 1,
                     deny_write_cnt |-> 0, removed |-> FALSE,
                     data |-> WordsToInode(block_read(k.m, sector))]
       IN [k |-> [m |-> read_check(k.m, sector),
                  inodes |-> <<inode>> \o k.inodes],
           id |-> id]

\* if (--inode->open_cnt == 0)
LastCloser(inode) == inode.open_cnt - 1 = 0

\* if (inode->removed)
FreeOnClose(inode) == inode.removed

\* free_map_release (inode->sector, 1); dinode_free (&inode->data);
FreeInode(m, inode) ==
  dinode_free(Release([m |-> m, d |-> inode.data, rel |-> <<>>],
                      inode.sector))

\* list_remove (&inode->elem), after the release r of its sectors if any.
Unlisted(k, i, r) ==
  [k |-> [m |-> r.m, inodes |-> RemoveAt(k.inodes, i)], rel |-> r.rel]

CloseAt(k, i) ==
  IF LastCloser(k.inodes[i])
  THEN IF FreeOnClose(k.inodes[i])
       THEN Unlisted(k, i, FreeInode(k.m, k.inodes[i]))
       ELSE Unlisted(k, i, [m |-> k.m, rel |-> <<>>])
  ELSE [k |-> [k EXCEPT !.inodes[i].open_cnt = @ - 1], rel |-> <<>>]

\* inode_close: returns k and rel, the sectors released, in order.
inode_close(k, id) == CloseAt(k, IndexOf(k.inodes, id))

\* inode_remove
\* An inode_remove that gives the sector of the inode back at once.
inode_remove_Now(k, id) ==
  [k EXCEPT !.inodes[IndexOf(k.inodes, id)].removed = TRUE,
            !.m = free_map_release(@, InodeOf(k.inodes, id).sector)]

inode_remove(k, id) ==
  [k EXCEPT !.inodes[IndexOf(k.inodes, id)].removed = TRUE]

\* An inode_allow_write that gives back two denials.
inode_allow_write_Twice(k, id) ==
  [k EXCEPT !.inodes[IndexOf(k.inodes, id)].deny_write_cnt = @ - 2]

\* inode_deny_write; its ASSERT is on the state it leaves.
inode_deny_write(k, id) ==
  [k EXCEPT !.inodes[IndexOf(k.inodes, id)].deny_write_cnt = @ + 1]

\* inode_allow_write
inode_allow_write(k, id) ==
  [k EXCEPT !.inodes[IndexOf(k.inodes, id)].deny_write_cnt = @ - 1]

inode_length(inode) == inode.data.length

(***************************************************************************)
(* inode_read_at: the bytes read, whether a sector past the end of the      *)
(* device was read, and the sector numbers given to block_read.             *)
(***************************************************************************)
\* Bytes left in inode, bytes left in sector, lesser of the two, and the
\* number of bytes to actually copy for this sector.
ChunkSize(inode, size, offset) ==
  Min2(size,
       Min2(inode_length(inode) - offset,
            BLOCK_SECTOR_SIZE - (offset % BLOCK_SECTOR_SIZE)))

\* One pass of the read loop: bs is what byte_to_sector gave.
ReadPass(m, acc, bs, sector_ofs, chunk_size) ==
  [bytes |-> acc.bytes \o SubSeq(ReadData(m, bs.sector), sector_ofs + 1,
                                 sector_ofs + chunk_size),
   panic |-> acc.panic \/ bs.panic \/ bs.sector \notin SectorsOf(m),
   read |-> acc.read \cup {bs.sector}]

RECURSIVE ReadLoop(_, _, _, _, _)
ReadLoop(m, inode, size, offset, acc) ==
  IF size > 0 /\ ChunkSize(inode, size, offset) > 0
  THEN ReadLoop(m, inode, size - ChunkSize(inode, size, offset),
                offset + ChunkSize(inode, size, offset),
                ReadPass(m, acc, byte_to_sector(m, inode.data, offset),
                         offset % BLOCK_SECTOR_SIZE,
                         ChunkSize(inode, size, offset)))
  ELSE acc

inode_read_at(m, inode, size, offset) ==
  ReadLoop(m, inode, size, offset,
           [bytes |-> <<>>, panic |-> FALSE, read |-> {}])

(***************************************************************************)
(* inode_write_at.  The copy loop works on w = [m, written, sectors]: the   *)
(* machine, bytes_written and the sectors written so far; the buffer is a   *)
(* sequence of SIZE words.                                                  *)
(***************************************************************************)
\* A faulty test that lets a write through whatever deny_write_cnt is.
WriteDenied_Never(inode) == FALSE

\* if (inode->deny_write_cnt) return 0;
WriteDenied(inode) == inode.deny_write_cnt # 0

\* if (offset + size > inode_length (inode))
NeedsExtension(inode, size, offset) == offset + size > inode_length(inode)

\* The sector image written: the whole sector from the buffer, or the bounce
\* buffer (the sector read in, or zeros) with the chunk copied into it.
Bounce(m, sector, sector_ofs, chunk_size) ==
  IF sector_ofs > 0 \/ chunk_size < BLOCK_SECTOR_SIZE - sector_ofs
  THEN ReadData(m, sector)
  ELSE Zeros

Image(bounce, buffer, written, sector_ofs, chunk_size) ==
  [i \in 1 .. BLOCK_SECTOR_SIZE |->
     IF i > sector_ofs /\ i <= sector_ofs + chunk_size
     THEN buffer[written + (i - sector_ofs)]
     ELSE bounce[i]]

\* One pass of the write loop: bs is what byte_to_sector gave.
WritePass(w, buffer, bs, sector_ofs, chunk_size) ==
  [m |-> block_write([w.m EXCEPT !.panic = @ \/ bs.panic], bs.sector,
                     Image(Bounce(w.m, bs.sector, sector_ofs, chunk_size),
                           buffer, w.written, sector_ofs, chunk_size)),
   written |-> w.written + chunk_size,
   sectors |-> w.sectors \cup {bs.sector}]

RECURSIVE WriteLoop(_, _, _, _, _)
WriteLoop(w, inode, buffer, size, offset) ==
  IF size > 0 /\ ChunkSize(inode, size, offset) > 0
  THEN WriteLoop(WritePass(w, buffer, byte_to_sector(w.m, inode.data, offset),
                           offset % BLOCK_SECTOR_SIZE,
                           ChunkSize(inode, size, offset)),
                 inode, buffer, size - ChunkSize(inode, size, offset),
                 offset + ChunkSize(inode, size, offset))
  ELSE w

\* The copy loop and the value returned.
Copied(k, w) ==
  [k |-> [k EXCEPT !.m = w.m], ret |-> w.written, sectors |-> w.sectors]

CopyAt(k, i, buffer, size, offset) ==
  Copied(k, WriteLoop([m |-> k.m, written |-> 0, sectors |-> {}],
                      k.inodes[i], buffer, size, offset))

\* inode->data.length = dinode_extend (&inode->data, offset + size);
Extended(k, i, x) ==
  [m |-> x.m, inodes |-> [k.inodes EXCEPT ![i].data = x.d]]

\* if (inode_length (inode) != offset + size) return -1;
AfterExtend(k2, i, buffer, size, offset) ==
  IF inode_length(k2.inodes[i]) # offset + size
  THEN [k |-> k2, ret |-> -1, sectors |-> {}]
  ELSE CopyAt(k2, i, buffer, size, offset)

WriteAt(k, i, buffer, size, offset) ==
  IF WriteDenied(k.inodes[i])
  THEN [k |-> k, ret |-> 0, sectors |-> {}]
  ELSE IF NeedsExtension(k.inodes[i], size, offset)
  THEN AfterExtend(Extended(k, i, dinode_extend(k.m, k.inodes[i].data,
                                                offset + size)),
                   i, buffer, size, offset)
  ELSE CopyAt(k, i, buffer, size, offset)

\* Returns k, the value returned and the sectors the copy loop wrote.
inode_write_at(k, id, buffer, size, offset) ==
  WriteAt(k, IndexOf(k.inodes, id), buffer, size, offset)

inode_is_dir(inode) == inode.data.isdir
inode_is_removed(inode) == inode.removed
inode_number(inode) == inode.sector

(***************************************************************************)
(* Names and paths.  A path is a sequence of characters; a name is a path   *)
(* without "/".  NULL is the null pointer: no inode, no directory.          *)
(***************************************************************************)
NULL == 0
NAME_MAX == 2

\* The names the model's programs use, by the code that stands for the name
\* in a directory entry.
NameTable == << <<".">>, <<".", ".">>, <<"a">>, <<"b">>, <<"d">> >>
NameCode(name) == CHOOSE i \in 1 .. Len(NameTable) : NameTable[i] = name

\* strtok_r (path, "/", &save_ptr) called until it returns NULL: the tokens
\* of the path.  cur is the token being read, acc the tokens read.
RECURSIVE Tokens(_, _, _)
Tokens(path, cur, acc) ==
  IF path = <<>>
  THEN IF cur = <<>> THEN acc ELSE Append(acc, cur)
  ELSE IF Head(path) = "/"
  THEN Tokens(Tail(path), <<>>, IF cur = <<>> THEN acc ELSE Append(acc, cur))
  ELSE Tokens(Tail(path), Append(cur, Head(path)), acc)

\* strrchr (path, '/'): the position of the last "/", 0 when there is none.
LastSlash(path) ==
  IF \E i \in 1 .. Len(path) : path[i] = "/"
  THEN CHOOSE i \in 1 .. Len(path) :
         /\ path[i] = "/"
         /\ \A j \in (i + 1) .. Len(path) : path[j] # "/"
  ELSE 0

\* The null pointer where a name is expected.
NullName == <<"NULL">>

\* get_filename: NULL for the empty path, else what follows the last "/",
\* the whole path when there is none.
get_filename(path) ==
  IF path = <<>> THEN NullName
  ELSE SubSeq(path, LastSlash(path) + 1, Len(path))

(***************************************************************************)
(* Directories.  A directory is an inode whose data is an array of entries  *)
(* of DirEntrySize words.  The first word of an entry holds in_use, the     *)
(* inode sector and the name; word 0 is an entry not in use, as in a        *)
(* zero-filled sector.  A struct dir * is the id of its inode; the position *)
(* of readdir is kept with the descriptor.                                  *)
(***************************************************************************)
EntryWord(inode_sector, name) == inode_sector * Len(NameTable) + NameCode(name)
in_use(word) == word # 0
EntrySector(word) == (word - 1) \div Len(NameTable)
EntryName(word) == NameTable[((word - 1) % Len(NameTable)) + 1]
EntryBytes(word) == Pad(<<word>>, DirEntrySize)

\* The data of the directory as the loops of directory.c read it, entry by
\* entry with inode_read_at.
DirBytes(k, dir) ==
  inode_read_at(k.m, InodeOf(k.inodes, dir),
                inode_length(InodeOf(k.inodes, dir)), 0).bytes
DirSlots(k, dir) ==
  1 .. (inode_length(InodeOf(k.inodes, dir)) \div DirEntrySize)
EntryAt(bytes, i) == bytes[(i - 1) * DirEntrySize + 1]

\* lookup: the slots in use that hold the name.
Matching(bytes, slots, name) ==
  {i \in slots : in_use(EntryAt(bytes, i))
                 /\ EntryName(EntryAt(bytes, i)) = name}

dir_open_root(k) == inode_open(k, ROOT_DIR_SECTOR)
dir_reopen(k, dir) == [k |-> inode_reopen(k, dir), id |-> dir]
dir_close(k, dir) == IF dir = NULL THEN k ELSE inode_close(k, dir).k

\* dir_lookup: on success the inode of the entry, opened.
Opened(x) == [k |-> x.k, inode |-> x.id, ok |-> TRUE]

LookupEntry(k, bytes, found) ==
  IF found = {}
  THEN [k |-> k, inode |-> NULL, ok |-> FALSE]
  ELSE Opened(inode_open(k, EntrySector(EntryAt(bytes, SetMin(found)))))

dir_lookup(k, dir, name) ==
  LookupEntry(k, DirBytes(k, dir),
              Matching(DirBytes(k, dir), DirSlots(k, dir), name))

\* dir_add: the offset of the first entry not in use, else the end of file.
FreeSlotOfs(bytes, slots) ==
  IF \E i \in slots : ~in_use(EntryAt(bytes, i))
  THEN (SetMin({i \in slots : ~in_use(EntryAt(bytes, i))}) - 1) * DirEntrySize
  ELSE Cardinality(slots) * DirEntrySize

EntryWritten(w) == [k |-> w.k, ok |-> w.ret = DirEntrySize]

AddEntry(k, dir, bytes, slots, name, inode_sector) ==
  IF Matching(bytes, slots, name) # {}
  THEN [k |-> k, ok |-> FALSE]
  ELSE EntryWritten(inode_write_at(k, dir,
                                   EntryBytes(EntryWord(inode_sector, name)),
                                   DirEntrySize, FreeSlotOfs(bytes, slots)))

dir_add(k, dir, name, inode_sector) ==
  IF name = <<>> \/ Len(name) > NAME_MAX
  THEN [k |-> k, ok |-> FALSE]
  ELSE AddEntry(k, dir, DirBytes(k, dir), DirSlots(k, dir), name,
                inode_sector)

\* dir_remove: a directory is removed only when it holds no entry but "."
\* and ".." and nobody else has it open.
Dots == {<<".">>, <<".", ".">>}

IsEmptyDir(bytes, slots) ==
  \A i \in slots : in_use(EntryAt(bytes, i))
                   => EntryName(EntryAt(bytes, i)) \in Dots

Busy(k, inode) ==
  /\ inode_is_dir(InodeOf(k.inodes, inode))
  /\ \/ InodeOf(k.inodes, inode).open_cnt > 1
     \/ ~IsEmptyDir(DirBytes(k, inode), DirSlots(k, inode))

RemoveDone(k, inode, ok) == [k |-> inode_close(k, inode).k, ok |-> ok]

EntryErased(w, inode) ==
  IF w.ret # DirEntrySize
  THEN RemoveDone(w.k, inode, FALSE)
  ELSE RemoveDone(inode_remove(w.k, inode), inode, TRUE)

RemoveEntry(x, dir, ofs) ==
  IF Busy(x.k, x.id)
  THEN RemoveDone(x.k, x.id, FALSE)
  ELSE EntryErased(inode_write_at(x.k, dir, EntryBytes(0), DirEntrySize, ofs),
                   x.id)

RemoveFound(k, dir, bytes, found) ==
  IF found = {}
  THEN [k |-> k, ok |-> FALSE]
  ELSE RemoveEntry(inode_open(k, EntrySector(EntryAt(bytes, SetMin(found)))),
                   dir, (SetMin(found) - 1) * DirEntrySize)

dir_remove(k, dir, name) ==
  RemoveFound(k, dir, DirBytes(k, dir),
              Matching(DirBytes(k, dir), DirSlots(k, dir), name))

\* dir_readdir from position pos: the next entry in use that is not "." or
\* "..", and the position after it.
Listed(bytes, slots, pos) ==
  {i \in slots : /\ i > pos \div DirEntrySize
                 /\ in_use(EntryAt(bytes, i))
                 /\ EntryName(EntryAt(bytes, i)) \notin Dots}

NextEntry(bytes, slots, listed, pos) ==
  IF listed = {}
  THEN [ok |-> FALSE, name |-> <<>>,
        pos |-> IF pos < Cardinality(slots) * DirEntrySize
                THEN Cardinality(slots) * DirEntrySize ELSE pos]
  ELSE [ok |-> TRUE, name |-> EntryName(EntryAt(bytes, SetMin(listed))),
        pos |-> SetMin(listed) * DirEntrySize]

dir_readdir(k, dir, pos) ==
  NextEntry(DirBytes(k, dir), DirSlots(k, dir),
            Listed(DirBytes(k, dir), DirSlots(k, dir), pos), pos)

\* dir_create: the inode with room for entry_cnt entries, then "." -> the
\* directory itself and ".." -> parent.
DotsClosed(a, dir) == [k |-> inode_close(a.k, dir).k, ok |-> a.ok]

DotDotAdded(a, dir, parent) ==
  IF ~a.ok
  THEN DotsClosed(a, dir)
  ELSE DotsClosed(dir_add(a.k, dir, <<".", ".">>, parent), dir)

DotAdded(x, sector, parent) ==
  DotDotAdded(dir_add(x.k, x.id, <<".">>, sector), x.id, parent)

DirInode(c, inodes, sector, parent) ==
  IF ~c.success
  THEN [k |-> [m |-> c.m, inodes |-> inodes], ok |-> FALSE]
  ELSE DotAdded(inode_open([m |-> c.m, inodes |-> inodes], sector), sector,
                parent)

dir_create(k, sector, entry_cnt, parent) ==
  DirInode(inode_create(k.m, sector, entry_cnt * DirEntrySize, TRUE),
           k.inodes, sector, parent)

(***************************************************************************)
(* get_dir.  The walk works on g = [k, dir, ok] and records                 *)
(*   mid_nondir    : a component that is not the path's last one named an   *)
(*                   inode that is not a directory                          *)
(*   over_nondir   : dir is a handle over an inode that is not a directory  *)
(*   inside_nondir : a component was looked up in such a handle             *)
(* A system call reports them with the handle returned and the sector of    *)
(* its inode (gd).                                                          *)
(***************************************************************************)
\* A get_dir that starts every path, absolute or not, at the working
\* directory.
StartDir_Cwd(k, cwd, path) ==
  IF cwd # NULL THEN dir_reopen(k, cwd) ELSE dir_open_root(k)

StartDir(k, cwd, path) ==
  IF path # <<>> /\ Head(path) = "/"
  THEN dir_open_root(k)
  ELSE IF cwd # NULL THEN dir_reopen(k, cwd) ELSE dir_open_root(k)

Walking(x) ==
  [k |-> x.k, dir |-> x.id, ok |-> TRUE, mid_nondir |-> FALSE,
   over_nondir |-> FALSE, inside_nondir |-> FALSE]

\* One pass of the loop: l is what dir_lookup gave for the token.
WalkStep(g, l, is_last) ==
  IF ~l.ok
  THEN [g EXCEPT !.k = dir_close(l.k, g.dir), !.dir = NULL, !.ok = FALSE,
                 !.over_nondir = FALSE,
                 !.inside_nondir = @ \/ g.over_nondir]
  ELSE [g EXCEPT !.k = dir_close(l.k, g.dir), !.dir = l.inode,
                 !.mid_nondir =
                    @ \/ (~is_last
                          /\ ~inode_is_dir(InodeOf(l.k.inodes, l.inode))),
                 !.over_nondir = ~inode_is_dir(InodeOf(l.k.inodes, l.inode)),
                 !.inside_nondir = @ \/ g.over_nondir]

RECURSIVE Walk(_, _, _)
Walk(g, tokens, include_last_token) ==
  IF ~g.ok \/ tokens = <<>> \/ (Len(tokens) = 1 /\ ~include_last_token)
  THEN g
  ELSE Walk(WalkStep(g, dir_lookup(g.k, g.dir, Head(tokens)),
                     Len(tokens) = 1),
            Tail(tokens), include_last_token)

\* if (inode_is_removed (dir->inode)) return NULL;
DirResolved(g) ==
  IF g.ok /\ inode_is_removed(InodeOf(g.k.inodes, g.dir))
  THEN [g EXCEPT !.dir = NULL, !.ok = FALSE, !.over_nondir = FALSE]
  ELSE g

get_dir(k, cwd, path, include_last_token) ==
  DirResolved(Walk(Walking(StartDir(k, cwd, path)),
                   Tokens(path, <<>>, <<>>), include_last_token))

\* What an operation that did not call get_dir reports.
NoGetDir ==
  [called |-> FALSE, dir |-> NULL, sector |-> NO_SECTOR,
   mid_nondir |-> FALSE, over_nondir |-> FALSE, inside_nondir |-> FALSE]

GetDirOf(g) ==
  [called |-> TRUE, dir |-> g.dir,
   sector |-> IF g.dir = NULL THEN NO_SECTOR
              ELSE InodeOf(g.k.inodes, g.dir).sector,
   mid_nondir |-> g.mid_nondir, over_nondir |-> g.over_nondir,
   inside_nondir |-> g.inside_nondir]

(***************************************************************************)
(* filesys_create, filesys_open, filesys_remove.                            *)
(***************************************************************************)
Kernel2(m, inodes) == [m |-> m, inodes |-> inodes]

\* if (!success && inode_sector != 0) free_map_release (inode_sector, 1);
\* dir_close (dir);
CreateFailed(g, m, inode_sector) ==
  [k |-> dir_close(Kernel2(IF inode_sector # 0
                           THEN free_map_release(m, inode_sector) ELSE m,
                           g.k.inodes), g.dir),
   success |-> FALSE, gd |-> GetDirOf(g)]

CreateAdded(g, a, inode_sector) ==
  IF a.ok
  THEN [k |-> dir_close(a.k, g.dir), success |-> TRUE, gd |-> GetDirOf(g)]
  ELSE CreateFailed([g EXCEPT !.k = a.k], a.k.m, inode_sector)

CreateInode(g, c, filename, inode_sector) ==
  IF c.success
  THEN CreateAdded(g, dir_add(Kernel2(c.m, g.k.inodes), g.dir, filename,
                              inode_sector), inode_sector)
  ELSE CreateFailed(g, c.m, inode_sector)

CreateSector(g, a, filename, initial_size) ==
  IF a.ok
  THEN CreateInode(g, inode_create(a.m, a.sector, initial_size, FALSE),
                   filename, a.sector)
  ELSE CreateFailed(g, a.m, 0)

CreateIn(g, filename, initial_size) ==
  IF g.dir # NULL
  THEN CreateSector(g, free_map_allocate(g.k.m), filename, initial_size)
  ELSE [k |-> g.k, success |-> FALSE, gd |-> GetDirOf(g)]

filesys_create(k, cwd, name, initial_size) ==
  IF name = <<>>
  THEN [k |-> k, success |-> FALSE, gd |-> NoGetDir]
  ELSE CreateIn(get_dir(k, cwd, name, FALSE), get_filename(name),
                initial_size)

\* if (inode == NULL || inode_is_removed (inode)) return NULL;
\* return file_open (inode);
FileOpened(k, inode, g) ==
  IF inode = NULL \/ inode_is_removed(InodeOf(k.inodes, inode))
  THEN [k |-> k, file |-> NULL, gd |-> GetDirOf(g)]
  ELSE [k |-> k, file |-> inode, gd |-> GetDirOf(g)]

OpenLooked(l, g) == FileOpened(dir_close(l.k, g.dir), l.inode, g)

OpenIn(g, filename) ==
  IF g.dir = NULL
  THEN [k |-> g.k, file |-> NULL, gd |-> GetDirOf(g)]
  ELSE IF filename = <<>>
  THEN FileOpened(g.k, g.dir, g)
  ELSE OpenLooked(dir_lookup(g.k, g.dir, filename), g)

filesys_open(k, cwd, name) ==
  IF name = <<>>
  THEN [k |-> k, file |-> NULL, gd |-> NoGetDir]
  ELSE OpenIn(get_dir(k, cwd, name, FALSE), get_filename(name))

RemoveClosed(r, g) ==
  [k |-> dir_close(r.k, g.dir), success |-> r.ok, gd |-> GetDirOf(g)]

\* dir_remove (dir, NULL) and dir_lookup (dir, NULL, &inode) read the name
\* through the null pointer: the kernel stops.
NullNameRead(g) ==
  [k |-> [g.k EXCEPT !.m.panic = TRUE], success |-> FALSE, gd |-> GetDirOf(g)]

RemoveIn(g, filename) ==
  IF g.dir = NULL
  THEN [k |-> g.k, success |-> FALSE, gd |-> GetDirOf(g)]
  ELSE IF filename = NullName
  THEN NullNameRead(g)
  ELSE RemoveClosed(dir_remove(g.k, g.dir, filename), g)

filesys_remove(k, cwd, name) ==
  RemoveIn(get_dir(k, cwd, name, FALSE), get_filename(name))

(***************************************************************************)
(* The system calls.  A thread th has                                       *)
(*   dir      : its working directory, NULL until the first chdir           *)
(*   files    : its list of struct process_file: the descriptor fd, the     *)
(*              struct file (the inode file and the position pos) and, for  *)
(*              a directory, the struct dir (dir, dirpos)                   *)
(*   fd_avail : the next descriptor                                         *)
(* An operation returns the kernel k, the thread th, the value ret returned *)
(* to the user and gd, what its call of get_dir did.                        *)
(***************************************************************************)
Returns(k, th, ret, gd) == [k |-> k, th |-> th, ret |-> ret, gd |-> gd]

\* pf_get: the positions in the list that hold descriptor fd.
pf_get(th, fd) ==
  IF fd < 0 THEN {}
  ELSE {i \in 1 .. Len(th.files) : th.files[i].fd = fd}

pf_add(k, th, new_file) ==
  [k |-> IF inode_is_dir(InodeOf(k.inodes, new_file))
         THEN inode_reopen(k, new_file) ELSE k,
   th |-> [th EXCEPT
             !.files = Append(@, [fd |-> th.fd_avail, file |-> new_file,
                                  pos |-> 0,
                                  dir |-> IF inode_is_dir(InodeOf(k.inodes,
                                                                  new_file))
                                          THEN new_file ELSE NULL,
                                  dirpos |-> 0]),
             !.fd_avail = @ + 1],
   fd |-> th.fd_avail]

\* file_close (pf->file); if (pf->dir) dir_close (pf->dir); list_remove
pf_close(k, th, fd) ==
  IF pf_get(th, fd) = {}
  THEN [k |-> k, th |-> th]
  ELSE [k |-> dir_close(inode_close(k, th.files[SetMin(pf_get(th, fd))].file).k,
                        th.files[SetMin(pf_get(th, fd))].dir),
        th |-> [th EXCEPT !.files = RemoveAt(@, SetMin(pf_get(th, fd)))]]

\* The value of filesys_create or filesys_remove, returned to the user.
Succeeded(x, th) == Returns(x.k, th, x.success, x.gd)

create(k, th, file, initial_size) ==
  Succeeded(filesys_create(k, th.dir, file, initial_size), th)

remove(k, th, file) == Succeeded(filesys_remove(k, th.dir, file), th)

OpenAdded(p, gd) == Returns(p.k, p.th, p.fd, gd)

OpenFile(f, th) ==
  IF f.file # NULL
  THEN OpenAdded(pf_add(f.k, th, f.file), f.gd)
  ELSE Returns(f.k, th, SYSCALL_ERROR, f.gd)

open(k, th, file) == OpenFile(filesys_open(k, th.dir, file), th)

filesize(k, th, fd) ==
  IF pf_get(th, fd) # {}
  THEN Returns(k, th,
               inode_length(InodeOf(k.inodes,
                                    th.files[SetMin(pf_get(th, fd))].file)),
               NoGetDir)
  ELSE Returns(k, th, SYSCALL_ERROR, NoGetDir)

\* file_read: inode_read_at at the position, which advances by the bytes read.
FileRead(k, th, i, r) ==
  [k |-> [k EXCEPT !.m.panic = @ \/ r.panic],
   th |-> [th EXCEPT !.files[i].pos = @ + Len(r.bytes)],
   ret |-> Len(r.bytes), gd |-> NoGetDir, bytes |-> r.bytes]

read(k, th, fd, length) ==
  IF pf_get(th, fd) # {}
  THEN FileRead(k, th, SetMin(pf_get(th, fd)),
                inode_read_at(k.m,
                              InodeOf(k.inodes,
                                      th.files[SetMin(pf_get(th, fd))].file),
                              length,
                              th.files[SetMin(pf_get(th, fd))].pos))
  ELSE [k |-> k, th |-> th, ret |-> SYSCALL_ERROR, gd |-> NoGetDir,
        bytes |-> <<>>]

\* file_write: inode_write_at at the position, which advances by the value
\* returned.
FileWritten(th, i, w) ==
  Returns(w.k, [th EXCEPT !.files[i].pos = @ + w.ret], w.ret, NoGetDir)

write(k, th, fd, buffer, length) ==
  IF pf_get(th, fd) # {}
  THEN FileWritten(th, SetMin(pf_get(th, fd)),
                   inode_write_at(k, th.files[SetMin(pf_get(th, fd))].file,
                                  buffer, length,
                                  th.files[SetMin(pf_get(th, fd))].pos))
  ELSE Returns(k, th, SYSCALL_ERROR, NoGetDir)

seek(k, th, fd, position) ==
  IF pf_get(th, fd) # {}
  THEN Returns(k, [th EXCEPT !.files[SetMin(pf_get(th, fd))].pos = position],
               0, NoGetDir)
  ELSE Returns(k, th, 0, NoGetDir)

tell(k, th, fd) ==
  IF pf_get(th, fd) # {}
  THEN Returns(k, th, th.files[SetMin(pf_get(th, fd))].pos, NoGetDir)
  ELSE Returns(k, th, SYSCALL_ERROR, NoGetDir)

Closed(p) == Returns(p.k, p.th, 0, NoGetDir)

close(k, th, fd) == Closed(pf_close(k, th, fd))

\* chdir, from the handle ch_dir that get_dir returned on:
\* dir_close (thread_current ()->dir); thread_current ()->dir = ch_dir;
chdir(k, th, ch_dir) ==
  Returns(dir_close(k, th.dir), [th EXCEPT !.dir = ch_dir, !.ch_dir = NULL],
          TRUE, NoGetDir)

\* mkdir.  sector starts as -1 and is released when the call failed after
\* the allocation; the inode dir_lookup opened for a name that exists is not
\* closed.
MkdirDone(k, g, success, sector) ==
  [k |-> IF ~success /\ sector # NO_SECTOR
         THEN [k EXCEPT !.m = free_map_release(@, sector)] ELSE k,
   success |-> success, gd |-> GetDirOf(g)]

MkdirAdded(a, g, sector) == MkdirDone(dir_close(a.k, g.dir), g, a.ok, sector)

MkdirCreated(c, g, new_dir, sector) ==
  IF c.ok
  THEN MkdirAdded(dir_add(c.k, g.dir, new_dir, sector), g, sector)
  ELSE MkdirDone(dir_close(c.k, g.dir), g, FALSE, sector)

MkdirSector(a, inodes, g, new_dir) ==
  IF a.ok
  THEN MkdirCreated(dir_create(Kernel2(a.m, inodes), a.sector,
                               InitialDirEntries,
                               InodeOf(inodes, g.dir).sector),
                    g, new_dir, a.sector)
  ELSE MkdirDone(dir_close(Kernel2(a.m, inodes), g.dir), g, FALSE, NO_SECTOR)

MkdirLooked(l, g, new_dir) ==
  IF l.ok
  THEN MkdirDone(dir_close(l.k, g.dir), g, FALSE, NO_SECTOR)
  ELSE MkdirSector(free_map_allocate(l.k.m), l.k.inodes, g, new_dir)

MkdirIn(g, new_dir) ==
  IF g.dir = NULL
  THEN MkdirDone(g.k, g, FALSE, NO_SECTOR)
  ELSE IF new_dir = NullName
  THEN NullNameRead(g)
  ELSE MkdirLooked(dir_lookup(g.k, g.dir, new_dir), g, new_dir)

mkdir(k, th, dir) ==
  Succeeded(MkdirIn(get_dir(k, th.dir, dir, FALSE), get_filename(dir)), th)

\* readdir: the descriptor is looked up in the list; a regular file has no
\* struct dir.
DirRead(k, th, i, e) ==
  [k |-> k, th |-> [th EXCEPT !.files[i].dirpos = e.pos], ret |-> e.ok,
   gd |-> NoGetDir, name |-> e.name]

readdir(k, th, fd) ==
  IF pf_get(th, fd) = {}
     \/ ~inode_is_dir(InodeOf(k.inodes, th.files[SetMin(pf_get(th, fd))].file))
  THEN [k |-> k, th |-> th, ret |-> FALSE, gd |-> NoGetDir, name |-> <<>>]
  ELSE DirRead(k, th, SetMin(pf_get(th, fd)),
               dir_readdir(k, th.files[SetMin(pf_get(th, fd))].dir,
                           th.files[SetMin(pf_get(th, fd))].dirpos))

isdir(k, th, fd) ==
  IF pf_get(th, fd) = {}
  THEN Returns(k, th, FALSE, NoGetDir)
  ELSE Returns(k, th,
               inode_is_dir(InodeOf(k.inodes,
                                    th.files[SetMin(pf_get(th, fd))].file)),
               NoGetDir)

\* inumber returns false, that is 0, for a descriptor that is not open.
inumber(k, th, fd) ==
  IF pf_get(th, fd) = {}
  THEN Returns(k, th, 0, NoGetDir)
  ELSE Returns(k, th,
               inode_number(InodeOf(k.inodes,
                                    th.files[SetMin(pf_get(th, fd))].file)),
               NoGetDir)

(***************************************************************************)
(* The state.                                                               *)
(*   disk, free_map, panic : the machine                                    *)
(*   open_inodes           : the list of open inodes                        *)
(*   files                 : the sectors that hold the inode of a file that *)
(*                           exists (created, its sectors not yet released) *)
(*   steps                 : the number of operations run so far            *)
(*   openers               : the callers holding a struct inode *: for each *)
(*                           slot the inode id (0: free slot) and whether   *)
(*                           this opener has called inode_deny_write        *)
(*   last                  : the last operation, its arguments and results  *)
(*   fs_lock               : the thread that holds fs_lock, 0 when free     *)
(*   threads               : for each thread of a user process where it is  *)
(*                           (pc), its working directory, its descriptors   *)
(*                           and the local variable ch_dir of chdir         *)
(*   unlinked              : the names, each with the sector of its         *)
(*                           directory, that remove took from a file while  *)
(*                           a descriptor was open on it and that no create *)
(*                           or mkdir has entered again (history)           *)
(***************************************************************************)
VARIABLES disk, free_map, panic, open_inodes, files, steps, openers, last,
          fs_lock, threads, unlinked

vars ==
  <<disk, free_map, panic, open_inodes, files, steps, openers, last, fs_lock,
    threads, unlinked>>

MaxFiles == 1
MaxSteps == 6
MaxOpeners == 2
NumThreads == 2
MaxCalls == 5

Sectors == DOMAIN disk
Machine == [disk |-> disk, free_map |-> free_map, panic |-> panic]
Kernel == [m |-> Machine, inodes |-> open_inodes]

FreeCount == Cardinality({s \in Sectors : ~free_map[s]})

\* The bitmap file holds one bit per sector, 32 to a word.
BitmapFileSize(n) == (n + 31) \div 32

\* filesys_init (true) on a device of n sectors: free_map_init marks the two
\* fixed sectors, do_format creates the free-map file and the root directory
\* (whose parent is the root itself), free_map_open opens the free-map inode.
Formatted(n) ==
  LET m0 == [disk |-> [s \in 0 .. (n - 1) |-> Zeros],
             free_map |-> [s \in 0 .. (n - 1) |->
                             s \in {FREE_MAP_SECTOR, ROOT_DIR_SECTOR}],
             panic |-> FALSE]
      m1 == inode_create(m0, FREE_MAP_SECTOR, BitmapFileSize(n), FALSE).m
      k2 == dir_create([m |-> m1, inodes |-> <<>>], ROOT_DIR_SECTOR,
                       InitialDirEntries, ROOT_DIR_SECTOR).k
  IN inode_open(k2, FREE_MAP_SECTOR).k

NoOp ==
  [op |-> "none", id |-> 0, sector |-> 0, offset |-> 0, size |-> 0,
   ret |-> 0, rel |-> <<>>, wrote |-> {}, pre |-> <<>>, thread |-> 0,
   fd |-> 0, held |-> TRUE, gd |-> NoGetDir, name |-> <<>>,
   path |-> <<>>, read |-> {}]

NoOpener == [ino |-> 0, denied |-> FALSE]

\* A thread in user code that has made no system call: thread_current ()->dir
\* is NULL, its list of files is empty and fd_avail is 2.  locals holds the
\* local variables of a creation that is inside dir_add.
NoLocals == <<>>

NewThread ==
  [pc |-> "user", dir |-> NULL, files |-> <<>>, fd_avail |-> 2,
   ch_dir |-> NULL, locals |-> NoLocals]

Init ==
  \E n \in {SmallNumSectors, NumSectors} :
    /\ disk = Formatted(n).m.disk
    /\ free_map = Formatted(n).m.free_map
    /\ panic = FALSE
    /\ open_inodes = Formatted(n).inodes
    /\ files = {}
    /\ steps = 0
    /\ openers = [h \in 1 .. MaxOpeners |-> NoOpener]
    /\ last = NoOp
    /\ fs_lock = NULL
    /\ threads = [t \in 1 .. NumThreads |-> NewThread]
    /\ unlinked = {}

Running == ~panic /\ steps < MaxSteps

\* The kernel has panicked: nothing runs any more.
Halt ==
  /\ panic' = TRUE
  /\ UNCHANGED <<disk, free_map, open_inodes, files, steps, openers, last,
                 fs_lock, threads, unlinked>>

Commit(k) ==
  /\ steps' = steps + 1
  /\ disk' = k.m.disk
  /\ free_map' = k.m.free_map
  /\ open_inodes' = k.inodes
  /\ panic' = FALSE
  /\ UNCHANGED <<fs_lock, threads, unlinked>>

FreeSlots == {h \in 1 .. MaxOpeners : openers[h].ino = 0}
UsedSlots == {h \in 1 .. MaxOpeners : openers[h].ino # 0}

\* What an operation on inode id saw before it ran.
PreOf(id) ==
  LET inode == InodeOf(open_inodes, id)
  IN [length |-> inode_length(inode), open_cnt |-> inode.open_cnt,
      removed |-> inode.removed, deny_write_cnt |-> inode.deny_write_cnt,
      free |-> FreeCount]

(***************************************************************************)
(* Inputs.                                                                  *)
(***************************************************************************)
IndirStart == BLOCK_SECTOR_SIZE * DIR_BLOCKS
DindirStart == BLOCK_SECTOR_SIZE * (DIR_BLOCKS + INDIR_BLOCK_PTRS * INDIR_BLOCKS)

CreateLengths == {0, IndirStart + 1, MaxFileSize}
WriteOffsets == {0, IndirStart, IndirStart + BLOCK_SECTOR_SIZE, DindirStart,
                 MaxFileSize}
WriteSizes == {1, 2 * BLOCK_SECTOR_SIZE}
Buffer(size) == [i \in 1 .. size |-> 1 + (i % 2)]
ReadOffsets == {0, IndirStart + 1}
ReadSizes == {1, 2 * BLOCK_SECTOR_SIZE}

(***************************************************************************)
(* The operations of the inode layer, as its callers use them.              *)
(***************************************************************************)

\* A file is created the way filesys_create does it, without the directory:
\* free_map_allocate (1, &inode_sector) && inode_create (inode_sector, ...),
\* and on failure free_map_release (inode_sector, 1).
Create(length) ==
  /\ Running
  /\ Cardinality(files) < MaxFiles
  /\ LET a == free_map_allocate(Machine)
         c == inode_create(a.m, a.sector, length, FALSE)
         ok == a.ok /\ c.success
         m2 == IF ~a.ok THEN a.m
               ELSE IF ~c.success THEN free_map_release(c.m, a.sector)
               ELSE c.m
     IN IF m2.panic THEN Halt
        ELSE /\ Commit([m |-> m2, inodes |-> open_inodes])
             /\ files' = IF ok THEN files \cup {a.sector} ELSE files
             /\ last' = [NoOp EXCEPT !.op = "create", !.sector = a.sector,
                                     !.size = length,
                                     !.ret = IF ok THEN 1 ELSE 0,
                                     !.pre = [free |-> FreeCount]]
             /\ UNCHANGED openers

Open(sector) ==
  /\ Running
  /\ sector \in files
  /\ FreeSlots # {}
  /\ LET x == inode_open(Kernel, sector)
         h == SetMin(FreeSlots)
     IN IF x.k.m.panic THEN Halt
        ELSE /\ Commit(x.k)
             /\ openers' = [openers EXCEPT ![h] = [ino |-> x.id,
                                                    denied |-> FALSE]]
             /\ last' = [NoOp EXCEPT !.op = "open", !.sector = sector,
                                     !.id = x.id,
                                     !.pre = [inodes |-> open_inodes]]
             /\ UNCHANGED files

Reopen(h) ==
  /\ Running
  /\ h \in UsedSlots
  /\ FreeSlots # {}
  /\ LET id == openers[h].ino
         h2 == SetMin(FreeSlots)
     IN /\ Commit(inode_reopen(Kernel, id))
        /\ openers' = [openers EXCEPT ![h2] = [ino |-> id, denied |-> FALSE]]
        /\ last' = [NoOp EXCEPT !.op = "reopen", !.id = id,
                                !.pre = PreOf(id)]
        /\ UNCHANGED files

\* An opener that denied writes allows them again before it closes.
Close(h) ==
  /\ Running
  /\ h \in UsedSlots
  /\ ~openers[h].denied
  /\ LET id == openers[h].ino
         x == inode_close(Kernel, id)
     IN IF x.k.m.panic THEN Halt
        ELSE /\ Commit(x.k)
             /\ openers' = [openers EXCEPT ![h] = NoOpener]
             /\ files' = files \ {x.rel[i] : i \in 1 .. Len(x.rel)}
             /\ last' = [NoOp EXCEPT !.op = "close", !.id = id,
                                     !.sector = InodeOf(open_inodes, id).sector,
                                     !.rel = x.rel, !.pre = PreOf(id)]

Remove(h) ==
  /\ Running
  /\ h \in UsedSlots
  /\ LET id == openers[h].ino
     IN /\ Commit(inode_remove(Kernel, id))
        /\ last' = [NoOp EXCEPT !.op = "remove", !.id = id, !.pre = PreOf(id)]
        /\ UNCHANGED <<files, openers>>

\* May be called at most once per inode opener.
DenyWrite(h) ==
  /\ Running
  /\ h \in UsedSlots
  /\ ~openers[h].denied
  /\ LET id == openers[h].ino
     IN /\ Commit(inode_deny_write(Kernel, id))
        /\ openers' = [openers EXCEPT ![h].denied = TRUE]
        /\ last' = [NoOp EXCEPT !.op = "deny_write", !.id = id,
                                !.pre = PreOf(id)]
        /\ UNCHANGED files

AllowWrite(h) ==
  /\ Running
  /\ h \in UsedSlots
  /\ openers[h].denied
  /\ LET id == openers[h].ino
     IN /\ Commit(inode_allow_write(Kernel, id))
        /\ openers' = [openers EXCEPT ![h].denied = FALSE]
        /\ last' = [NoOp EXCEPT !.op = "allow_write", !.id = id,
                                !.pre = PreOf(id)]
        /\ UNCHANGED files

Write(h, offset, size) ==
  /\ Running
  /\ h \in UsedSlots
  /\ LET id == openers[h].ino
         x == inode_write_at(Kernel, id, Buffer(size), size, offset)
     IN IF x.k.m.panic THEN Halt
        ELSE /\ Commit(x.k)
             /\ last' = [NoOp EXCEPT !.op = "write", !.id = id,
                                     !.offset = offset, !.size = size,
                                     !.ret = x.ret, !.wrote = x.sectors,
                                     !.pre = PreOf(id)]
             /\ UNCHANGED <<files, openers>>

\* inode_read_at by an opener: it changes nothing, the caller learns the
\* number of bytes read.
Read(h, offset, size) ==
  /\ Running
  /\ h \in UsedSlots
  /\ LET id == openers[h].ino
         r == inode_read_at(Machine, InodeOf(open_inodes, id), size, offset)
     IN IF r.panic THEN Halt
        ELSE /\ last' = [NoOp EXCEPT !.op = "read", !.id = id,
                                     !.offset = offset, !.size = size,
                                     !.ret = Len(r.bytes), !.read = r.read,
                                     !.pre = PreOf(id)]
             /\ UNCHANGED <<disk, free_map, panic, open_inodes, files, steps,
                            openers, fs_lock, threads, unlinked>>

Next ==
  \/ \E length \in CreateLengths : Create(length)
  \/ \E sector \in Sectors : Open(sector)
  \/ \E h \in 1 .. MaxOpeners : Reopen(h)
  \/ \E h \in 1 .. MaxOpeners : Close(h)
  \/ \E h \in 1 .. MaxOpeners : Remove(h)
  \/ \E h \in 1 .. MaxOpeners : DenyWrite(h)
  \/ \E h \in 1 .. MaxOpeners : AllowWrite(h)
  \/ \E h \in 1 .. MaxOpeners, offset \in WriteOffsets, size \in WriteSizes :
        Write(h, offset, size)

Spec == Init /\ [][Next]_vars

\* The inode layer with its readers.
NextRead ==
  \/ Next
  \/ \E h \in 1 .. MaxOpeners, offset \in ReadOffsets, size \in ReadSizes :
        Read(h, offset, size)

SpecRead == Init /\ [][NextRead]_vars

(***************************************************************************)
(* The system calls as the threads of user processes issue them.            *)
(*                                                                          *)
(* create, remove, open, filesize, read, write, seek, tell and close begin  *)
(* with lock_acquire (&fs_lock) and end with lock_release (&fs_lock): the   *)
(* thread first takes the lock (action lock_acquire, which waits while      *)
(* another thread holds it) and then runs the call and releases the lock    *)
(* in one step, since no other holder of the lock can run in between.       *)
(* chdir, mkdir, readdir, isdir and inumber take no lock, so the calls of   *)
(* other threads run while they do.  The functions of the file system are   *)
(* the steps of the model: chdir is the step that calls get_dir (SYS_CHDIR) *)
(* and the step that closes the old working directory and stores the new    *)
(* one (chdir_close); the other four call one function that changes state.  *)
(***************************************************************************)
Threads == 1 .. NumThreads
NoThread == NULL

\* The programs: odd threads work on files, even threads move about the
\* directory tree.
Workers == {t \in Threads : t % 2 = 1}
Navigators == {t \in Threads : t % 2 = 0}

PathA == <<"a">>
PathAB == <<"a", "/", "b">>
PathD == <<"d">>
PathRoot == <<"/">>
PathEmpty == <<>>
PathAbsD == <<"/", "d">>
PathDUp == <<"/", "d", "/", ".", ".">>

CreatePaths == {PathA, PathAB, PathEmpty}
CreateSizes == {1}
RemovePaths == {PathA, PathD, PathEmpty}
OpenPaths(t) == IF t \in Workers THEN {PathA, PathEmpty} ELSE {PathRoot}
ChdirPaths == {PathA, PathD, PathRoot, PathEmpty, PathAbsD, PathDUp}
MkdirPaths == {PathD, PathEmpty}
Fds == {-1, 2}
IoSizes == {2}
SeekPositions == {1}

Syscalls ==
  {"create", "remove", "open", "filesize", "read", "write", "seek", "tell",
   "close", "chdir", "mkdir", "readdir", "isdir", "inumber"}

FsRunning == ~panic

FsInit == Init /\ Cardinality(DOMAIN disk) = NumSectors

\* The struct inode the descriptors of the threads are open on.
OpenFiles ==
  UNION {{threads[t].files[i].file : i \in 1 .. Len(threads[t].files)} :
           t \in Threads}

\* The inodes marked removed that a descriptor is open on.
RemovedOpen(inodes) ==
  {inodes[i].id : i \in {j \in 1 .. Len(inodes) :
                           inodes[j].removed /\ inodes[j].id \in OpenFiles}}

\* The history unlinked after the system call op returned x for the name.
Unlinked(op, x, name) ==
  IF op = "remove" /\ x.ret /\ RemovedOpen(x.k.inodes) # RemovedOpen(open_inodes)
  THEN unlinked \cup {<<x.gd.sector, name>>}
  ELSE IF op \in {"create", "mkdir"} /\ x.ret
  THEN unlinked \ {<<x.gd.sector, name>>}
  ELSE unlinked

\* The thread is in user code and issues a system call.
Calls(t) == FsRunning /\ steps < MaxCalls /\ threads[t].pc = "user"

\* The thread has taken fs_lock and runs the rest of its system call.
Locked(t) == FsRunning /\ threads[t].pc = "locked"

lock_acquire(t) ==
  /\ Calls(t)
  /\ fs_lock = NoThread
  /\ fs_lock' = t
  /\ threads' = [threads EXCEPT ![t].pc = "locked"]
  /\ steps' = steps + 1
  /\ last' = [NoOp EXCEPT !.op = "lock_acquire", !.thread = t]
  /\ UNCHANGED <<disk, free_map, panic, open_inodes, files, openers,
                 unlinked>>

\* The system call op of thread t, made with the path and the descriptor fd,
\* returned x; started tells whether this step began the call.  A call that
\* took fs_lock releases it.
Return(t, x, op, path, fd, size, started) ==
  IF x.k.m.panic THEN Halt
  ELSE /\ disk' = x.k.m.disk
       /\ free_map' = x.k.m.free_map
       /\ open_inodes' = x.k.inodes
       /\ panic' = FALSE
       /\ threads' = [threads EXCEPT ![t] = [x.th EXCEPT !.pc = "user"]]
       /\ fs_lock' = IF fs_lock = t THEN NoThread ELSE fs_lock
       /\ steps' = IF started THEN steps + 1 ELSE steps
       /\ last' = [NoOp EXCEPT !.op = op, !.thread = t, !.ret = x.ret,
                               !.gd = x.gd, !.held = (fs_lock = t),
                               !.fd = fd, !.size = size,
                               !.name = get_filename(path),
                               !.path = path]
       /\ unlinked' = Unlinked(op, x, get_filename(path))
       /\ UNCHANGED <<files, openers>>

SYS_CREATE(t, file, initial_size) ==
  /\ Locked(t)
  /\ Return(t, create(Kernel, threads[t], file, initial_size), "create", file,
            0, initial_size, FALSE)

SYS_REMOVE(t, file) ==
  /\ Locked(t)
  /\ Return(t, remove(Kernel, threads[t], file), "remove", file, 0, 0, FALSE)

SYS_OPEN(t, file) ==
  /\ Locked(t)
  /\ Return(t, open(Kernel, threads[t], file), "open", file, 0, 0, FALSE)

SYS_FILESIZE(t, fd) ==
  /\ Locked(t)
  /\ Return(t, filesize(Kernel, threads[t], fd), "filesize", <<>>, fd, 0,
            FALSE)

SYS_READ(t, fd, length) ==
  /\ Locked(t)
  /\ Return(t, read(Kernel, threads[t], fd, length), "read", <<>>, fd, length,
            FALSE)

SYS_WRITE(t, fd, length) ==
  /\ Locked(t)
  /\ Return(t, write(Kernel, threads[t], fd, Buffer(length), length), "write",
            <<>>, fd, length, FALSE)

SYS_SEEK(t, fd, position) ==
  /\ Locked(t)
  /\ Return(t, seek(Kernel, threads[t], fd, position), "seek", <<>>, fd,
            position, FALSE)

SYS_TELL(t, fd) ==
  /\ Locked(t)
  /\ Return(t, tell(Kernel, threads[t], fd), "tell", <<>>, fd, 0, FALSE)

SYS_CLOSE(t, fd) ==
  /\ Locked(t)
  /\ Return(t, close(Kernel, threads[t], fd), "close", <<>>, fd, 0, FALSE)

\* chdir after struct dir *ch_dir = get_dir (dir, true) gave g: it returns
\* false when ch_dir is NULL and goes on to dir_close otherwise.
Resolved(t, g, dir) ==
  IF g.k.m.panic \/ g.dir = NULL
  THEN Return(t, Returns(g.k, threads[t], FALSE, GetDirOf(g)), "chdir", dir, 0,
              0, TRUE)
  ELSE /\ disk' = g.k.m.disk
       /\ free_map' = g.k.m.free_map
       /\ open_inodes' = g.k.inodes
       /\ threads' = [threads EXCEPT ![t].pc = "chdir", ![t].ch_dir = g.dir]
       /\ steps' = steps + 1
       /\ last' = [NoOp EXCEPT !.op = "get_dir", !.thread = t,
                               !.held = (fs_lock = t), !.gd = GetDirOf(g),
                               !.name = get_filename(dir), !.path = dir]
       /\ UNCHANGED <<panic, fs_lock, files, openers, unlinked>>

SYS_CHDIR(t, dir) ==
  /\ Calls(t)
  /\ Resolved(t, get_dir(Kernel, threads[t].dir, dir, TRUE), dir)

chdir_close(t) ==
  /\ FsRunning
  /\ threads[t].pc = "chdir"
  /\ Return(t, chdir(Kernel, threads[t], threads[t].ch_dir), "chdir", <<>>, 0,
            0, FALSE)

SYS_MKDIR(t, dir) ==
  /\ Calls(t)
  /\ Return(t, mkdir(Kernel, threads[t], dir), "mkdir", dir, 0, 0, TRUE)

SYS_READDIR(t, fd) ==
  /\ Calls(t)
  /\ Return(t, readdir(Kernel, threads[t], fd), "readdir", <<>>, fd, 0, TRUE)

SYS_ISDIR(t, fd) ==
  /\ Calls(t)
  /\ Return(t, isdir(Kernel, threads[t], fd), "isdir", <<>>, fd, 0, TRUE)

SYS_INUMBER(t, fd) ==
  /\ Calls(t)
  /\ Return(t, inumber(Kernel, threads[t], fd), "inumber", <<>>, fd, 0, TRUE)

\* get_dir of an absolute path steps over the '/' with path_copy++ and later
\* calls free (path_copy) with that pointer, which malloc did not return.
\* What free does with it is undefined: the call goes on as the actions
\* above say, or the kernel stops here.
free_path_copy(t, path) ==
  /\ path # <<>> /\ Head(path) = "/"
  /\ Locked(t) \/ Calls(t)
  /\ Halt

FsNext ==
  \/ \E t \in Threads : lock_acquire(t)
  \/ \E t \in Workers, file \in CreatePaths, initial_size \in CreateSizes :
        SYS_CREATE(t, file, initial_size)
  \/ \E t \in Workers, file \in RemovePaths : SYS_REMOVE(t, file)
  \/ \E t \in Threads : \E file \in OpenPaths(t) : SYS_OPEN(t, file)
  \/ \E t \in Workers, fd \in Fds : SYS_FILESIZE(t, fd)
  \/ \E t \in Workers, fd \in Fds, length \in IoSizes : SYS_READ(t, fd, length)
  \/ \E t \in Workers, fd \in Fds, length \in IoSizes :
        SYS_WRITE(t, fd, length)
  \/ \E t \in Workers, fd \in Fds, position \in SeekPositions :
        SYS_SEEK(t, fd, position)
  \/ \E t \in Workers, fd \in Fds : SYS_TELL(t, fd)
  \/ \E t \in Threads, fd \in Fds : SYS_CLOSE(t, fd)
  \/ \E t \in Navigators, dir \in ChdirPaths : SYS_CHDIR(t, dir)
  \/ \E t \in Threads : chdir_close(t)
  \/ \E t \in Navigators, dir \in MkdirPaths : SYS_MKDIR(t, dir)
  \/ \E t \in Navigators, fd \in Fds : SYS_READDIR(t, fd)
  \/ \E t \in Navigators, fd \in Fds : SYS_ISDIR(t, fd)
  \/ \E t \in Navigators, fd \in Fds : SYS_INUMBER(t, fd)
  \/ \E t \in Navigators, path \in ChdirPaths : free_path_copy(t, path)

FsSpec == FsInit /\ [][FsNext]_vars

(***************************************************************************)
(* Definitions used to state the claims.                                    *)
(***************************************************************************)
SeqSet(q) == {q[i] : i \in 1 .. Len(q)}
NoDuplicates(q) == \A i, j \in 1 .. Len(q) : i # j => q[i] # q[j]

\* The pointers stored in the index tree of inode_disk d within its counters.
TreeSectors(m, d) ==
  LET direct == {d.direct[i] : i \in 1 .. d.dir_cnt}
      indir == IF d.indir_cnt = 0 THEN {}
               ELSE {d.indirect[1]}
                    \cup {ReadPtrs(m, d.indirect[1])[i] :
                            i \in 1 .. d.indir_curr_usage}
      lv1 == ReadPtrs(m, d.dindirect[1])
      lv2cnt(j) == IF j < d.dindir_curr_usage THEN INDIR_BLOCK_PTRS
                   ELSE d.dindir_lv2_curr_usage
      dindir == IF d.dindir_cnt = 0 THEN {}
                ELSE {d.dindirect[1]}
                     \cup {lv1[j] : j \in 1 .. d.dindir_curr_usage}
                     \cup UNION {{ReadPtrs(m, lv1[j])[i] : i \in 1 .. lv2cnt(j)} :
                                   j \in 1 .. d.dindir_curr_usage}
  IN direct \cup indir \cup dindir

\* The sectors a file of n data sectors needs: data and index blocks.
SectorsFor(n) ==
  n + (IF n > DIR_BLOCKS THEN 1 ELSE 0)
    + (IF n > DIR_BLOCKS + INDIR_BLOCK_PTRS
       THEN 1 + ((n - DIR_BLOCKS - INDIR_BLOCK_PTRS + INDIR_BLOCK_PTRS - 1)
                 \div INDIR_BLOCK_PTRS)
       ELSE 0)

LastInode == InodeOf(open_inodes, last.id)
RealStep == steps' = steps + 1
Released == {s \in Sectors : free_map[s] /\ ~free_map'[s]}

\* C1 (refcount safety): a step releases sectors only when it is the
\* inode_close that brings open_cnt to 0 on a removed inode; that step releases
\* the inode's own sector and every sector of its index tree, each exactly
\* once; every other step, in particular a close of an inode that was not
\* removed, releases nothing.
C1_ReleaseAtLastClose ==
  [][RealStep =>
       IF last'.op = "close" /\ last'.pre.open_cnt = 1 /\ last'.pre.removed
       THEN /\ SeqSet(last'.rel)
                 = {last'.sector}
                   \cup TreeSectors(Machine, InodeOf(open_inodes, last'.id).data)
            /\ NoDuplicates(last'.rel)
            /\ Released = SeqSet(last'.rel)
       ELSE Released = {}]_vars

\* C2 (offset round-trip): after inode_write_at (offset, N) succeeds at an
\* offset inside the file, inode_read_at (offset, N) returns the N bytes
\* written.  Stated for the states in which the free-map still has a free
\* sector, so that no allocation behind the file has failed.
C2_RoundTrip ==
  (/\ last.op = "write"
   /\ last.ret = last.size
   /\ last.offset < last.pre.length
   /\ FreeCount > 0)
  => inode_read_at(Machine, LastInode, last.size, last.offset).bytes
       = Buffer(last.size)

\* C3 (hole-free growth): after a successful inode_write_at (offset, N) with
\* offset > length, the length is offset + N and every byte of
\* [old length, offset) reads back as zero.  Stated for the states in which
\* the free-map still has a free sector.
C3_HoleFree ==
  (/\ last.op = "write"
   /\ last.ret = last.size
   /\ last.offset > last.pre.length
   /\ FreeCount > 0)
  => /\ inode_length(LastInode) = last.offset + last.size
     /\ inode_read_at(Machine, LastInode, last.offset - last.pre.length,
                      last.pre.length).bytes
          = [i \in 1 .. (last.offset - last.pre.length) |-> 0]

\* C7: when inode_write_at cannot extend the file to offset + size (the end
\* lies past the maximum file size, or fewer sectors are free than the new data
\* sectors it needs), it returns -1 and the length is what it was before.
CannotExtend ==
  /\ last.offset + last.size > last.pre.length
  /\ \/ last.offset + last.size > MaxFileSize
     \/ last.pre.free < bytes_to_total_sectors(last.offset + last.size)
                        - bytes_to_total_sectors(last.pre.length)

C7_FailedExtendKeepsLength ==
  (last.op = "write" /\ last.pre.deny_write_cnt = 0 /\ CannotExtend)
  => (last.ret = -1 /\ inode_length(LastInode) = last.pre.length)

\* C5: the list of open inodes holds at most one struct inode per sector, so
\* the openers of one sector share one struct inode (its length, removed flag
\* and deny_write_cnt).  inode_open of a sector that is open returns that
\* struct inode with open_cnt one higher; inode_open of a sector that is not
\* open inserts a new one with open_cnt = 1, deny_write_cnt = 0 and removed
\* false.
WasOpen == {i \in 1 .. Len(last.pre.inodes) :
              last.pre.inodes[i].sector = last.sector}

C5_OneInodePerSector ==
  /\ \A i, j \in 1 .. Len(open_inodes) :
       i # j => open_inodes[i].sector # open_inodes[j].sector
  /\ \A h1, h2 \in UsedSlots :
       InodeOf(open_inodes, openers[h1].ino).sector
         = InodeOf(open_inodes, openers[h2].ino).sector
       => openers[h1].ino = openers[h2].ino
  /\ last.op = "open" =>
       IF WasOpen # {}
       THEN /\ Len(open_inodes) = Len(last.pre.inodes)
            /\ \A i \in WasOpen :
                 /\ last.id = last.pre.inodes[i].id
                 /\ LastInode
                      = [last.pre.inodes[i] EXCEPT !.open_cnt = @ + 1]
       ELSE /\ Len(open_inodes) = Len(last.pre.inodes) + 1
            /\ last.id \notin InodeIds(last.pre.inodes)
            /\ LastInode.sector = last.sector
            /\ LastInode.open_cnt = 1
            /\ LastInode.deny_write_cnt = 0
            /\ LastInode.removed = FALSE

W5_OneInodePerSector == last.op = "open" /\ WasOpen # {}

\* C9: while deny_write_cnt >= 1, inode_write_at returns 0 and changes
\* nothing: the disk, the free-map and the open inodes (so the length) are
\* what they were, whatever the offset and the size.
C9_DeniedWriteChangesNothing ==
  [][(RealStep /\ last'.op = "write" /\ last'.pre.deny_write_cnt >= 1)
       => (last'.ret = 0 /\ UNCHANGED <<disk, free_map, open_inodes>>)]_vars

W9_DeniedWriteChangesNothing ==
  /\ last.op = "write" /\ last.pre.deny_write_cnt >= 1
  /\ last.offset + last.size > last.pre.length
  /\ last.ret = 0

(***************************************************************************)
(* The largest file.  A second specification creates a file of every length *)
(* from 0 to just past the maximum, and writes around the maximum offset.   *)
(***************************************************************************)
AllLengths == 0 .. (MaxFileSize + 1)
EndOffsets ==
  {MaxFileSize - 2 * BLOCK_SECTOR_SIZE, MaxFileSize - 1, MaxFileSize}
EndSizes == {1, 2}

NextMaxSize ==
  \/ \E length \in AllLengths : Create(length)
  \/ \E sector \in Sectors : Open(sector)
  \/ \E h \in 1 .. MaxOpeners, offset \in EndOffsets, size \in EndSizes :
        Write(h, offset, size)

SpecMaxSize == Init /\ [][NextMaxSize]_vars

\* (DIR_BLOCKS + INDIR_BLOCK_PTRS + INDIR_BLOCK_PTRS^2) * BLOCK_SECTOR_SIZE for
\* a geometry of dir direct blocks, ptrs pointers a block, bss bytes a sector.
MaxSizeOf(dir, ptrs, bss) ==
  (dir + ptrs * INDIR_BLOCKS + ptrs * ptrs * DINDIR_BLOCKS) * bss

\* The inode_disk that the last create wrote to its sector.
CreatedDinode == WordsToInode(block_read(Machine, last.sector))

DataSectorsOf(d) ==
  {byte_to_sector(Machine, d, pos).sector : pos \in 0 .. (d.length - 1)}

\* 8,459,264 bytes lies this many 512-byte sectors below
\* (12 + 128 + 128*128) * 512; ClaimedMaxFileSize lies as many sectors below
\* the maximum of the model's geometry.
SectorsShort == (MaxSizeOf(12, 128, 512) - 8459264) \div 512
ClaimedMaxFileSize == MaxFileSize - SectorsShort * BLOCK_SECTOR_SIZE

\* C8 as stated: the maximum file size is 8,459,264 bytes, so a write whose
\* end lies past it (one byte at offset 8,459,264) fails, here on an empty
\* file and with the free sectors the new length needs.
C8_MaxFileSizeAsStated ==
  (/\ last.op = "write"
   /\ last.pre.deny_write_cnt = 0
   /\ last.pre.length = 0
   /\ last.pre.free
        >= SectorsFor(bytes_to_total_sectors(last.offset + last.size))
   /\ last.offset + last.size > ClaimedMaxFileSize)
  => last.ret = -1

\* C8, amended: the maximum file size is (12 + 128 + 128*128) * 512 =
\* 8,460,288 bytes in the geometry of the source.  With enough free sectors,
\* dinode_extend from an empty inode succeeds for every length up to the
\* maximum: the inode written has that length and every byte of it maps to a
\* sector of its own, marked used.  A write whose end lies past the maximum
\* fails.
C8_MaxFileSize ==
  /\ MaxSizeOf(12, 128, 512) = 8460288
  /\ MaxFileSize
       = MaxSizeOf(DIR_BLOCKS, INDIR_BLOCK_PTRS, BLOCK_SECTOR_SIZE)
  /\ (/\ last.op = "create"
      /\ last.size <= MaxFileSize
      /\ last.pre.free
           >= 1 + SectorsFor(bytes_to_total_sectors(last.size)))
     => /\ last.ret = 1
        /\ CreatedDinode.length = last.size
        /\ DataSectorsOf(CreatedDinode) \subseteq {s \in Sectors : free_map[s]}
        /\ Cardinality(DataSectorsOf(CreatedDinode))
             = bytes_to_total_sectors(last.size)
  /\ (last.op = "create" /\ last.size > MaxFileSize) => last.ret = 0
  /\ (/\ last.op = "write"
      /\ last.pre.deny_write_cnt = 0
      /\ last.offset + last.size > MaxFileSize)
     => last.ret = -1

W8_MaxFileSize ==
  /\ last.op = "write"
  /\ last.offset = MaxFileSize /\ last.size = 1
  /\ last.pre.length = MaxFileSize
  /\ last.ret = -1

(***************************************************************************)
(* Claims about the system calls, checked under FsSpec.                     *)
(***************************************************************************)
\* The thread is executing file system code.
InFilesys(t) == threads[t].pc \in {"locked", "chdir"}

\* C4.  Mutual exclusion: every file system call holds fs_lock while it
\* runs, so a thread that is inside file system code is the holder of
\* fs_lock, at most one thread is inside file system code, and the system
\* call that ran last ran under the lock.
C4_MutualExclusion ==
  /\ \A t \in Threads : InFilesys(t) => fs_lock = t
  /\ Cardinality({t \in Threads : InFilesys(t)}) <= 1
  /\ last.op \in Syscalls => last.held

\* The sectors of an open inode: its own and those of its index tree.
InodeSectors(inode) == {inode.sector} \cup TreeSectors(Machine, inode.data)

\* The inode descriptor fd of thread th is open on.
FileOf(inodes, th, fd) ==
  InodeOf(inodes, th.files[SetMin(pf_get(th, fd))].file)

\* This step is the call last', which read or wrote through a descriptor
\* that is open on a file that has been removed.
ThroughRemoved(op) ==
  /\ ~panic'
  /\ last'.op = op
  /\ pf_get(threads[last'.thread], last'.fd) # {}
  /\ inode_is_removed(FileOf(open_inodes, threads[last'.thread], last'.fd))

\* The position of the descriptor of the call last' before the call.
PosBefore == tell(Kernel, threads[last'.thread], last'.fd).ret

\* C6.  Removal while open.  Once remove has succeeded on a file that a
\* descriptor is open on, open of that name fails until create or mkdir
\* enters the name again.  As long as a descriptor stays open on the removed
\* file, no step releases one of its sectors or frees its struct inode, its
\* sectors stay allocated and belong to no other open inode, a read through
\* the descriptor returns the bytes from the position to the end of the
\* file, and a write through it is stored in the file: it returns the size
\* written and the file then holds the buffer at that position.
C6_RemovedWhileOpen ==
  [][/\ \A i \in 1 .. Len(open_inodes) :
          (open_inodes[i].removed /\ open_inodes[i].id \in OpenFiles')
          => /\ Released \cap InodeSectors(open_inodes[i]) = {}
             /\ open_inodes[i].id \in InodeIds(open_inodes')
             /\ \A s \in InodeSectors(open_inodes[i]) : free_map[s]
             /\ \A j \in 1 .. Len(open_inodes) :
                   j # i => InodeSectors(open_inodes[j])
                            \cap InodeSectors(open_inodes[i]) = {}
     /\ (/\ last'.op = "open"
         /\ <<last'.gd.sector, last'.name>> \in unlinked)
        => last'.ret = SYSCALL_ERROR
     /\ ThroughRemoved("read")
        => last'.ret = Min2(last'.size,
                            inode_length(FileOf(open_inodes,
                                                threads[last'.thread],
                                                last'.fd)) - PosBefore)
     /\ (/\ ThroughRemoved("write")
         /\ FileOf(open_inodes, threads[last'.thread],
                   last'.fd).deny_write_cnt = 0)
        => /\ last'.ret = last'.size
           /\ inode_read_at([disk |-> disk', free_map |-> free_map',
                             panic |-> FALSE],
                            FileOf(open_inodes', threads[last'.thread],
                                   last'.fd),
                            last'.size, PosBefore).bytes = Buffer(last'.size)
    ]_vars

\* A descriptor is open on a file that remove has taken the name of, and the
\* open of that name that ran last failed.
W6_RemovedWhileOpen ==
  /\ last.op = "open"
  /\ <<last.gd.sector, last.name>> \in unlinked
  /\ last.ret = SYSCALL_ERROR
  /\ RemovedOpen(open_inodes) # {}

\* C10.  get_dir fails when a component that is not the last one names an
\* inode that is not a directory, looks up no component inside such an
\* inode and returns no handle over one.
C10_GetDirNotADirectory ==
  last.gd.called
  => /\ last.gd.mid_nondir => last.gd.dir = NULL
     /\ ~last.gd.inside_nondir
     /\ ~last.gd.over_nondir

\* The call that ran last was made with the empty path: create, open,
\* remove or mkdir, a chdir that returned false, or the get_dir of chdir.
EmptyPathCall(l) ==
  /\ l.path = PathEmpty
  /\ l.gd.called \/ l.op \in {"create", "open", "remove", "mkdir"}

\* What the call returned tells the user that it failed; a chdir that is
\* past get_dir has not failed.
Failed(l) ==
  IF l.op = "open" THEN l.ret = SYSCALL_ERROR
  ELSE IF l.op = "get_dir" THEN FALSE
  ELSE l.ret = FALSE

\* C11.  The empty path: get_dir of the empty path returns no handle, with
\* include_last_token and without, and chdir, mkdir, create, open and remove
\* of the empty path fail and change neither the working directory of the
\* thread, nor the disk and the free map, nor the open inodes and their
\* open_cnt.
C11_EmptyPathFails ==
  [][(~panic' /\ EmptyPathCall(last'))
     => /\ last'.gd.dir = NULL
        /\ Failed(last')
        /\ threads'[last'.thread].dir = threads[last'.thread].dir
        /\ UNCHANGED <<disk, free_map, open_inodes>>
    ]_vars


\* The open count of every open inode, by the sector of the inode.
OpenCounts(inodes) ==
  {<<inodes[i].sector, inodes[i].open_cnt>> : i \in 1 .. Len(inodes)}

\* The call l went through get_dir, and get_dir returned NULL.
GetDirFailed(l) == l.gd.called /\ l.gd.dir = NULL

\* C12.  No handle leaks from a failed get_dir: when get_dir returns NULL,
\* for a component that was not found as for the removed check at its end,
\* every directory handle it took is closed again, so that every inode has
\* the open count it had before the call (a system call does nothing more
\* once its get_dir has failed).
C12_FailedGetDirLeaksNothing ==
  [][(~panic' /\ GetDirFailed(last'))
       => OpenCounts(open_inodes') = OpenCounts(open_inodes)]_vars


\* The working directories of the threads, and none.
WorkingDirs == {threads[t].dir : t \in Threads} \cup {NULL}

AbsolutePaths ==
  {PathRoot, PathAbsD, <<"/", "a">>, PathDUp,
   <<"/", "d", "/", "a">>}

\* C13.  Path invariance: with the directory tree as it is, get_dir of an
\* absolute path gives the same outcome (the handle and the inode it is on,
\* or NULL, and the same open inodes) whatever the working directory of the
\* calling thread is, for both values of include_last_token.
C13_AbsolutePathIgnoresCwd ==
  \A path \in AbsolutePaths : \A include_last_token \in BOOLEAN :
    \A cwd \in WorkingDirs :
      get_dir(Kernel, cwd, path, include_last_token)
        = get_dir(Kernel, NULL, path, include_last_token)

\* A thread whose working directory is not the root has called get_dir of
\* "/d", which gave the directory d.
W13_AbsolutePathIgnoresCwd ==
  /\ last.op = "get_dir"
  /\ last.path = PathAbsD
  /\ last.gd.sector \notin {NO_SECTOR, ROOT_DIR_SECTOR}
  /\ threads[last.thread].dir # NULL
  /\ InodeOf(open_inodes, threads[last.thread].dir).sector # ROOT_DIR_SECTOR


\* The system calls of C14, which work on a descriptor.
DescriptorCalls == {"filesize", "read", "write", "tell", "inumber"}

\* The call l was made by its thread with a descriptor that the thread, in
\* the state before the call, has not open.
NotOpenBefore(l) ==
  /\ l.op \in DescriptorCalls
  /\ pf_get(threads[l.thread], l.fd) = {}

\* C14.  A descriptor that is not open: filesize, read, write, tell and
\* inumber of a descriptor that is negative, that open never returned or that
\* was closed return -1, and change nothing of the file system (device,
\* free-map, open inodes, the descriptors of the thread).
C14_BadDescriptor ==
  [][(~panic' /\ NotOpenBefore(last'))
       => /\ last'.ret = SYSCALL_ERROR
          /\ UNCHANGED <<disk, free_map, open_inodes>>
          /\ threads'[last'.thread].files = threads[last'.thread].files
          /\ threads'[last'.thread].dir = threads[last'.thread].dir
    ]_vars


\* The open count of the inode of a sector, 0 when it is not open.
OpenCntOf(inodes, sector) ==
  IF FindOpen(inodes, sector) = {} THEN 0
  ELSE inodes[SetMin(FindOpen(inodes, sector))].open_cnt

\* The sector of the inode that handle dir is on.
SectorOfDir(inodes, dir) ==
  IF dir = NULL THEN NO_SECTOR ELSE InodeOf(inodes, dir).sector

\* The get_dir of chdir gave a handle: it holds one reference more on the
\* inode it resolved to, and nothing else.
ChdirResolves ==
  (~panic' /\ last'.op = "get_dir")
    => /\ threads'[last'.thread].ch_dir = last'.gd.dir
       /\ \A s \in Sectors :
            OpenCntOf(open_inodes', s)
              = OpenCntOf(open_inodes, s)
                  + (IF s = last'.gd.sector THEN 1 ELSE 0)

\* chdir goes on to success: the handle of the working directory so far is
\* closed once, and the handle of get_dir is the working directory.
ChdirInstalls ==
  (~panic' /\ last'.op = "chdir" /\ last'.ret = TRUE)
    => /\ threads'[last'.thread].dir = threads[last'.thread].ch_dir
       /\ \A s \in Sectors :
            OpenCntOf(open_inodes', s)
              = OpenCntOf(open_inodes, s)
                  - (IF s = SectorOfDir(open_inodes, threads[last'.thread].dir)
                     THEN 1 ELSE 0)

\* chdir returns false: nothing has changed.
ChdirFails ==
  (~panic' /\ last'.op = "chdir" /\ last'.ret = FALSE)
    => /\ threads'[last'.thread].dir = threads[last'.thread].dir
       /\ OpenCounts(open_inodes') = OpenCounts(open_inodes)

\* C15.  chdir: on success the handle of the previous working directory is
\* closed exactly once and the handle get_dir resolved, which holds exactly
\* one reference, is installed; on failure chdir returns false and the
\* working directory and every open count are as before.
C15_ChdirHandles ==
  [][ChdirResolves /\ ChdirInstalls /\ ChdirFails]_vars


Max2(a, b) == IF a > b THEN a ELSE b

\* The positions of an inode and those around them.
PositionsOf(inode) == -1 .. (inode_length(inode) + 1)

\* The sectors of the positions of the inode that a read of size bytes from
\* offset may take.
SectorsToRead(m, inode, size, offset) ==
  {byte_to_sector(m, inode.data, pos).sector :
     pos \in offset .. (Min2(offset + size, inode_length(inode)) - 1)}

ExtendLengths(d) ==
  {new_length \in {d.length, d.length + BLOCK_SECTOR_SIZE * INDIR_BLOCK_PTRS,
                   DindirStart + 1, MaxFileSize + BLOCK_SECTOR_SIZE} :
     new_length >= d.length}

\* ".", "..", and paths that come back to a directory they have left.
DottedPaths ==
  {<<".">>, <<".", ".">>, PathDUp, <<"d", "/", ".", ".">>,
   <<"d", "/", ".", ".", "/", "d", "/", ".">>,
   <<"/", ".", ".", "/", "d", "/", ".", ".", "/", ".">>}

\* dinode_free has returned with no block left to free.
Freed(r) == r.d.dir_cnt = 0 /\ r.d.indir_cnt = 0 /\ r.d.dindir_cnt = 0

\* dinode_extend has returned x, with a length that is not above the one asked
\* for, and dinode_free of the inode_disk it has grown returns as well.
ExtendedAndFreed(x, new_length) ==
  /\ x.ret <= new_length
  /\ Freed(dinode_free([m |-> x.m, d |-> x.d, rel |-> <<>>]))

\* get_dir has returned: NULL, or a handle on an open inode.
GetDirReturned(g) == g.dir = NULL \/ g.dir \in InodeIds(g.k.inodes)

\* C17.  Termination: for every inode that is open, dinode_extend to a length
\* that is not less than its length returns (a length not above the one asked
\* for), dinode_free of the inode, as it is and as dinode_extend has grown it,
\* returns with dir_cnt = indir_cnt = dindir_cnt = 0, and get_dir returns for
\* every path, also for paths that go through "." and ".." and so come back
\* to a directory.
C17_RunsToCompletion ==
  /\ \A i \in 1 .. Len(open_inodes) :
       /\ \A new_length \in ExtendLengths(open_inodes[i].data) :
            ExtendedAndFreed(dinode_extend(Machine, open_inodes[i].data,
                                           new_length),
                             new_length)
       /\ Freed(dinode_free([m |-> Machine, d |-> open_inodes[i].data,
                             rel |-> <<>>]))
  /\ \A path \in DottedPaths : \A include_last_token \in BOOLEAN :
       \A cwd \in WorkingDirs :
         GetDirReturned(get_dir(Kernel, cwd, path, include_last_token))

\* chdir ("/d/..") has come back to the root directory, while the directory
\* d is open as well.
W17_RunsToCompletion ==
  /\ last.op = "get_dir"
  /\ last.path = PathDUp
  /\ last.gd.sector = ROOT_DIR_SECTOR
  /\ \E i \in 1 .. Len(open_inodes) :
       /\ open_inodes[i].data.isdir
       /\ open_inodes[i].sector # ROOT_DIR_SECTOR


\* C18.  The counters form a prefix: in every open inode, dir_cnt < DIR_BLOCKS
\* implies indir_cnt = 0, and indir_curr_usage < INDIR_BLOCK_PTRS implies
\* dindir_cnt = 0: a level is entered only when the one before it is full,
\* because a later dinode_extend goes on in the partly filled block that an
\* earlier one has left.
C18_CounterPrefix ==
  \A i \in 1 .. Len(open_inodes) :
    /\ open_inodes[i].data.dir_cnt < DIR_BLOCKS
         => open_inodes[i].data.indir_cnt = 0
    /\ open_inodes[i].data.indir_curr_usage < INDIR_BLOCK_PTRS
         => open_inodes[i].data.dindir_cnt = 0


\* The data sectors that the counters of inode_disk d record.
CountedSectors(d) ==
  d.dir_cnt
    + (IF d.indir_cnt = 1 THEN d.indir_curr_usage ELSE 0)
    + (IF d.dindir_cnt = 1
       THEN (d.dindir_curr_usage - 1) * INDIR_BLOCK_PTRS
              + d.dindir_lv2_curr_usage
       ELSE 0)

SectorCount(d) == CountedSectors(d) = bytes_to_total_sectors(d.length)

\* dinode_extend has returned x: when it returned the length asked for, the
\* counters record the sectors of that length.
ExtendedCount(x, new_length) == x.ret = new_length => SectorCount(x.d)

\* C19.  Sector count: after a successful inode_create, dinode_extend or
\* inode_write_at the data sectors recorded by the counters of the inode
\* (dir_cnt, indir_curr_usage when indir_cnt = 1, and the data sectors under
\* the double indirect block when dindir_cnt = 1) are as many as the length
\* needs, ceil (length / BLOCK_SECTOR_SIZE).
C19_SectorCount ==
  /\ (last.op = "create" /\ last.ret = 1) => SectorCount(CreatedDinode)
  /\ (last.op = "write" /\ last.ret = last.size)
       => SectorCount(LastInode.data)
  /\ \A i \in 1 .. Len(open_inodes) :
       \A new_length \in ExtendLengths(open_inodes[i].data) :
         ExtendedCount(dinode_extend(Machine, open_inodes[i].data,
                                     new_length),
                       new_length)

\* A write has grown a file into the double indirect block.
W19_SectorCount ==
  /\ last.op = "write"
  /\ last.ret = last.size
  /\ inode_length(LastInode) > last.pre.length
  /\ LastInode.data.dindir_cnt = 1


\* The sectors that the free-map marks used.
UsedSectors == {s \in Sectors : free_map[s]}

\* C20.  Every sector number stored in the index tree of an open inode within
\* its counters (the direct pointers below dir_cnt, the indirect block and
\* its pointers below indir_curr_usage, the double indirect block, its level
\* 2 blocks and their pointers in use) is marked used in the free-map, also
\* when the free-map ran out of sectors during an extension.
C20_TreeSectorsUsed ==
  \A i \in 1 .. Len(open_inodes) :
    TreeSectors(Machine, open_inodes[i].data) \subseteq UsedSectors


\* The last create found a free sector for the inode, but fewer free sectors
\* after it than the data sectors of the length asked for.
CreateOutOfSpace ==
  /\ last.op = "create"
  /\ last.pre.free >= 1
  /\ last.pre.free - 1 < bytes_to_total_sectors(last.size)

\* The last write had to extend the file by more data sectors than were free.
WriteOutOfSpace ==
  /\ last.op = "write"
  /\ last.pre.deny_write_cnt = 0
  /\ last.offset + last.size <= MaxFileSize
  /\ last.pre.free < bytes_to_total_sectors(last.offset + last.size)
                     - bytes_to_total_sectors(last.pre.length)

\* C21.  Out of space: when the free-map runs out of sectors partway through
\* dinode_extend the extension stops, the length is the shorter one that was
\* reached and is what dinode_extend returns, so that inode_create returns
\* false (the create fails) and inode_write_at returns -1 with the file
\* shorter than the end of the write.
C21_OutOfSpaceStops ==
  /\ CreateOutOfSpace => last.ret = 0
  /\ WriteOutOfSpace
       => /\ last.ret = -1
          /\ inode_length(LastInode) < last.offset + last.size


\* The free-map of the device as filesys_init (true) left it: no file has
\* been created yet.
FormattedFreeMap == Formatted(Cardinality(DOMAIN disk)).m.free_map

\* This step is the last close of the file, which was removed.
LastCloseOfRemoved ==
  /\ RealStep
  /\ last'.op = "close"
  /\ last'.pre.open_cnt = 1
  /\ last'.pre.removed

\* C22.  Extend and free: dinode_free releases the sectors that the
\* extensions of the inode allocated, data sectors and index blocks, each
\* once; with the inode's own sector, which inode_close releases, the
\* free-map after the last close of a removed file is the free-map from
\* before the file was created.
C22_ExtendFreeRoundTrip ==
  [][LastCloseOfRemoved
       => /\ NoDuplicates(last'.rel)
          /\ free_map' = FormattedFreeMap]_vars


\* ASSERT (inode->deny_write_cnt <= inode->open_cnt), with the count not
\* below 0.
DenyWriteAssert(inode) ==
  0 <= inode.deny_write_cnt /\ inode.deny_write_cnt <= inode.open_cnt

\* C23.  Every open inode has 0 <= deny_write_cnt <= open_cnt, and the
\* assertions of inode_deny_write (on the count it leaves) and of
\* inode_allow_write (on the count it finds, which is above 0) hold, when
\* each opener denies writes at most once and allows them again before it
\* closes.
C23_DenyWriteCount ==
  /\ \A i \in 1 .. Len(open_inodes) : DenyWriteAssert(open_inodes[i])
  /\ last.op = "deny_write" => DenyWriteAssert(LastInode)
  /\ last.op = "allow_write"
       => /\ last.pre.deny_write_cnt > 0
          /\ last.pre.deny_write_cnt <= last.pre.open_cnt

\* Both openers of an inode had denied writes, and one has allowed them
\* again.
W23_DenyWriteCount ==
  /\ last.op = "allow_write"
  /\ last.pre.deny_write_cnt = MaxOpeners
  /\ last.pre.open_cnt = MaxOpeners


\* The inode_disk stored at the sector of an open inode is the copy in memory.
WrittenBack(inode) ==
  WordsToInode(block_read(Machine, inode.sector)) = inode.data

\* C24.  Immediate write-back: after every inode_create, dinode_extend and
\* inode_write_at that has returned, for every open inode the record stored
\* on the device at the sector of the inode is the copy in memory (length,
\* counters and pointers), so that an inode_open after the last close finds
\* what was last written.
C24_WriteBack ==
  \A i \in 1 .. Len(open_inodes) : WrittenBack(open_inodes[i])

\* The handles that are live on the struct inode id: the struct file and
\* the struct dir of every descriptor, the working directory of every
\* thread, the local ch_dir of a chdir that is under way, and free_map_file,
\* which free_map_open opens on the inode of the free map and keeps open.
DescriptorHandles(id) ==
  {<<t, i, f>> \in Threads \X (1 .. MaxCalls) \X {"file", "dir"} :
     /\ i <= Len(threads[t].files)
     /\ threads[t].files[i][f] = id}

CwdHandles(id) ==
  {<<t, f>> \in Threads \X {"dir", "ch_dir"} : threads[t][f] = id}

LiveHandles(inode) ==
  Cardinality(DescriptorHandles(inode.id)) + Cardinality(CwdHandles(inode.id))
    + (IF inode.sector = FREE_MAP_SECTOR THEN 1 ELSE 0)

\* C25.  Reference conservation: after every completed create, open,
\* remove, mkdir, chdir and close the open count of each inode in memory
\* equals the number of live handles on it (descriptors and working
\* directories); no path leaks a reference, such as mkdir of a name that
\* exists or open of a removed inode.
C25_ReferenceConservation ==
  \A i \in 1 .. Len(open_inodes) :
    open_inodes[i].open_cnt = LiveHandles(open_inodes[i])

\* The system call that just returned is a filesys_create or a mkdir that
\* returned false.
CreationFailed ==
  ~panic' /\ last'.op \in {"create", "mkdir"} /\ last'.ret = FALSE

\* C26.  A filesys_create or a mkdir that returns false leaves the free map
\* exactly as it was before the call: the sector of the inode and every
\* data or index sector allocated on the way are released, when the name
\* exists, when the name is too long and when the creation of the inode
\* fell short.
C26_FailedCreationFreeMap ==
  [][CreationFailed => free_map' = free_map]_vars

\* The sectors whose contents this step changed.
ChangedSectors == {s \in Sectors : disk'[s] # disk[s]}

\* The sectors that belong to the inode the last inode_write_at wrote to,
\* after the call: its own sector and the data and index sectors of its
\* tree, each marked used in the free map.
OwnSectorsAfter ==
  {s \in {InodeOf(open_inodes', last'.id).sector}
           \cup TreeSectors(Machine', InodeOf(open_inodes', last'.id).data) :
     s \in Sectors /\ free_map'[s]}

\* C27.  Write isolation: inode_write_at writes only sectors that belong to
\* the inode it is called on; it never writes sector 0, sector 1, the
\* sector of another inode or a sector the free map does not mark used,
\* also when free_map_allocate fails during the extension.
C27_WriteIsolation ==
  [][(RealStep /\ last'.op = "write")
       => (last'.wrote \cup ChangedSectors) \subseteq OwnSectorsAfter]_vars

(***************************************************************************)
(* Creations that interleave.  A thread gives up the processor while it     *)
(* waits for the block device, so that the calls of another thread run      *)
(* between two block operations of a call.  create holds fs_lock and mkdir  *)
(* takes no lock: this specification splits the two at one such point,      *)
(* inside dir_add, between the loop of inode_read_at that looks for the     *)
(* name and for an entry not in use and the inode_write_at that stores the  *)
(* entry at the offset the loop found.  A call that returns before dir_add  *)
(* is one step, as in FsSpec.                                               *)
(***************************************************************************)
RaceCreatePaths == {PathA, <<"b">>}
RaceMkdirPaths == {PathD, PathA}

\* The thread has read the directory in dir_add: it keeps the handle dir,
\* the sector of its new inode, the name, and the entries as it read them.
Scanned(t, k, g, name, path, sector, op, started) ==
  /\ ~k.m.panic
  /\ disk' = k.m.disk
  /\ free_map' = k.m.free_map
  /\ open_inodes' = k.inodes
  /\ threads' = [threads EXCEPT
                   ![t].pc = "dir_add",
                   ![t].locals = [op |-> op, dir |-> g.dir, name |-> name,
                                  path |-> path, sector |-> sector,
                                  gd |-> GetDirOf(g),
                                  bytes |-> DirBytes(k, g.dir),
                                  slots |-> DirSlots(k, g.dir)]]
  /\ steps' = IF started THEN steps + 1 ELSE steps
  /\ last' = [NoOp EXCEPT !.op = "dir_add", !.thread = t,
                          !.held = (fs_lock = t), !.gd = GetDirOf(g),
                          !.name = name, !.path = path, !.sector = sector]
  /\ UNCHANGED <<panic, fs_lock, files, openers, unlinked>>

\* filesys_create up to the loop of dir_add.
CreateScanInode(t, g, c, file, inode_sector) ==
  /\ c.success
  /\ Scanned(t, Kernel2(c.m, g.k.inodes), g, get_filename(file), file,
             inode_sector, "create", FALSE)

CreateScanSector(t, g, a, file, initial_size) ==
  /\ a.ok
  /\ CreateScanInode(t, g, inode_create(a.m, a.sector, initial_size, FALSE),
                     file, a.sector)

CreateScanIn(t, g, file, initial_size) ==
  /\ g.dir # NULL
  /\ CreateScanSector(t, g, free_map_allocate(g.k.m), file, initial_size)

create_scan(t, file, initial_size) ==
  /\ Locked(t)
  /\ CreateScanIn(t, get_dir(Kernel, threads[t].dir, file, FALSE), file,
                  initial_size)

\* mkdir up to the loop of dir_add; a name that exists ends the call at
\* dir_lookup, in one step.
MkdirScanCreated(t, g, c, dir, sector) ==
  /\ c.ok
  /\ Scanned(t, c.k, g, get_filename(dir), dir, sector, "mkdir", TRUE)

MkdirScanSector(t, g, a, inodes, dir) ==
  /\ a.ok
  /\ MkdirScanCreated(t, g,
                      dir_create(Kernel2(a.m, inodes), a.sector,
                                 InitialDirEntries,
                                 InodeOf(inodes, g.dir).sector),
                      dir, a.sector)

MkdirScanLooked(t, g, l, dir) ==
  IF l.ok
  THEN Return(t, Succeeded(MkdirLooked(l, g, get_filename(dir)), threads[t]),
              "mkdir", dir, 0, 0, TRUE)
  ELSE MkdirScanSector(t, g, free_map_allocate(l.k.m), l.k.inodes, dir)

MkdirScanIn(t, g, dir) ==
  /\ g.dir # NULL
  /\ MkdirScanLooked(t, g, dir_lookup(g.k, g.dir, get_filename(dir)), dir)

mkdir_scan(t, dir) ==
  /\ Calls(t)
  /\ MkdirScanIn(t, get_dir(Kernel, threads[t].dir, dir, FALSE), dir)

\* The rest of dir_add, with the entries l.bytes as the loop read them, and
\* the rest of the call: filesys_create releases inode_sector when dir_add
\* failed and closes dir; mkdir closes cur_dir and releases sector.
ScannedGetDir(k, l) ==
  [k |-> k, dir |-> l.dir, mid_nondir |-> l.gd.mid_nondir,
   over_nondir |-> l.gd.over_nondir, inside_nondir |-> l.gd.inside_nondir]

AddFinished(a, l) ==
  IF l.op = "create"
  THEN CreateAdded(ScannedGetDir(a.k, l), a, l.sector)
  ELSE MkdirAdded(a, ScannedGetDir(a.k, l), l.sector)

AddReturned(t, x, l) ==
  Return(t, Returns(x.k, [threads[t] EXCEPT !.locals = NoLocals], x.success,
                    l.gd),
         l.op, l.path, 0, 0, FALSE)

DirAddWrite(t, l) ==
  AddReturned(t, AddFinished(AddEntry(Kernel, l.dir, l.bytes, l.slots, l.name,
                                      l.sector), l), l)

dir_add_write(t) ==
  /\ FsRunning
  /\ threads[t].pc = "dir_add"
  /\ DirAddWrite(t, threads[t].locals)

RaceNext ==
  \/ \E t \in Workers : lock_acquire(t)
  \/ \E t \in Workers, file \in RaceCreatePaths, initial_size \in CreateSizes :
        create_scan(t, file, initial_size)
  \/ \E t \in Navigators, dir \in RaceMkdirPaths : mkdir_scan(t, dir)
  \/ \E t \in Threads : dir_add_write(t)
  \/ \E t \in Workers, file \in RemovePaths : SYS_REMOVE(t, file)

RaceSpec == FsInit /\ [][RaceNext]_vars

\* The inode_disk in sector s of the device, and the entries in use of the
\* directory it describes.
DiskInode(m, s) == [sector |-> s, data |-> WordsToInode(block_read(m, s))]

DiskDirBytes(m, s) ==
  inode_read_at(m, DiskInode(m, s), inode_length(DiskInode(m, s)), 0).bytes

LiveEntries(m, s) ==
  IF DiskInode(m, s).data.magic = INODE_MAGIC /\ DiskInode(m, s).data.isdir
  THEN {e \in SeqSet(DiskDirBytes(m, s)) : in_use(e)}
  ELSE {}

\* The sectors of the inodes that the directories name, from the root on.
RECURSIVE NamedInodes(_, _)
NamedInodes(m, seen) ==
  IF \A s \in seen : \A e \in LiveEntries(m, s) : EntrySector(e) \in seen
  THEN seen
  ELSE NamedInodes(m, seen \cup UNION {{EntrySector(e) : e \in LiveEntries(m, s)} :
                                         s \in seen})

\* The inodes there are: the inode of the free map, the root directory and
\* what the directories name, the inodes that are open, and the inode a
\* creation has written and is about to enter in a directory.
InodesThereAre ==
  NamedInodes(Machine, {FREE_MAP_SECTOR, ROOT_DIR_SECTOR})
    \cup {open_inodes[i].sector : i \in 1 .. Len(open_inodes)}
    \cup {threads[t].locals.sector : t \in {u \in Threads :
                                              threads[u].pc = "dir_add"}}

\* The positions in the index tree of inode_disk d that hold sector s.
PointersTo(m, d, s) ==
  IF d.magic # INODE_MAGIC THEN {}
  ELSE {<<"direct", i>> : i \in {j \in 1 .. d.dir_cnt : d.direct[j] = s}}
         \cup {<<"indirect", i>> :
                 i \in {j \in 1 .. d.indir_cnt : d.indirect[j] = s}}
         \cup {<<"indirect data", i>> :
                 i \in {j \in 1 .. (IF d.indir_cnt = 0 THEN 0
                                    ELSE d.indir_curr_usage) :
                          ReadPtrs(m, d.indirect[1])[j] = s}}
         \cup {<<"dindirect", i>> :
                 i \in {j \in 1 .. d.dindir_cnt : d.dindirect[j] = s}}
         \cup {<<"level 2", i>> :
                 i \in {j \in 1 .. (IF d.dindir_cnt = 0 THEN 0
                                    ELSE d.dindir_curr_usage) :
                          ReadPtrs(m, d.dindirect[1])[j] = s}}
         \cup {<<"level 2 data", i>> :
                 i \in {j \in 1 .. (IF d.dindir_cnt = 0 THEN 0
                                    ELSE d.dindir_curr_usage
                                           * INDIR_BLOCK_PTRS) :
                          /\ \/ j <= (d.dindir_curr_usage - 1) * INDIR_BLOCK_PTRS
                             \/ j - (d.dindir_curr_usage - 1) * INDIR_BLOCK_PTRS
                                  <= d.dindir_lv2_curr_usage
                          /\ ReadPtrs(m, ReadPtrs(m, d.dindirect[1])
                                           [((j - 1) \div INDIR_BLOCK_PTRS) + 1])
                               [((j - 1) % INDIR_BLOCK_PTRS) + 1] = s}}

\* The owners of sector s: the inode whose record it holds, and each
\* position of the tree of an inode that points to it.
OwnersOf(s) ==
  {<<i, <<"inode", 0>>>> : i \in {j \in InodesThereAre : j = s}}
    \cup UNION {{<<i, p>> : p \in PointersTo(Machine, DiskInode(Machine, i).data, s)} :
                  i \in InodesThereAre}

OwnedOnce == \A s \in UsedSectors : Cardinality(OwnersOf(s)) = 1

\* The creation that returns true in this step left every entry in use of
\* the directory in place.
SlotKept ==
  (~panic' /\ last'.op \in {"create", "mkdir"} /\ last'.ret = TRUE)
    => LiveEntries(Machine, last'.gd.sector)
         \subseteq LiveEntries(Machine', last'.gd.sector)

\* C28.  Under any interleaving of the system calls of several threads,
\* with a thread giving way at block I/O, no sector is owned twice: each
\* sector marked used is exactly one of the record of one inode or one
\* position in the index tree of one inode (the file of the free map is
\* one of the inodes); and two concurrent creations, a mkdir in one thread
\* and a create in another, never receive the same sector or fill the same
\* directory slot.
C28_NoSectorOwnedTwice == [][OwnedOnce' /\ SlotKept]_vars

(***************************************************************************)
(* The lock.  lock_acquire (&fs_lock) is two steps here: the thread calls   *)
(* it and waits (lock_wait), and it gets the lock when no thread holds it   *)
(* (lock_take).  The calls are the ones that take fs_lock: create, remove,  *)
(* open, filesize, read, write, seek, tell, close and exec.  The scheduler  *)
(* runs every ready thread again and again, and the semaphore of the lock   *)
(* wakes the waiting threads in turn: a thread that holds the lock goes on  *)
(* (weak fairness of its call) and a thread that waits while the lock is    *)
(* free again and again gets it (strong fairness of lock_take).             *)
(***************************************************************************)
LockedSyscalls ==
  {"create", "remove", "open", "filesize", "read", "write", "seek", "tell",
   "close", "exec"}
LockPaths == {PathA, PathRoot, PathEmpty}

lock_wait(t) ==
  /\ Calls(t)
  /\ threads' = [threads EXCEPT ![t].pc = "waiting"]
  /\ steps' = steps + 1
  /\ last' = [NoOp EXCEPT !.op = "lock_wait", !.thread = t,
                          !.held = (fs_lock = t)]
  /\ UNCHANGED <<disk, free_map, panic, open_inodes, files, openers, fs_lock,
                 unlinked>>

lock_take(t) ==
  /\ FsRunning
  /\ threads[t].pc = "waiting"
  /\ fs_lock = NoThread
  /\ fs_lock' = t
  /\ threads' = [threads EXCEPT ![t].pc = "locked"]
  /\ last' = [NoOp EXCEPT !.op = "lock_acquire", !.thread = t]
  /\ UNCHANGED <<disk, free_map, panic, open_inodes, files, steps, openers,
                 unlinked>>

\* What the system call op does between lock_acquire and lock_release.
\* exec: process_execute starts the child and returns its pid.
Between(k, th, op, file, fd) ==
  IF op = "create" THEN create(k, th, file, SetMin(CreateSizes))
  ELSE IF op = "remove" THEN remove(k, th, file)
  ELSE IF op = "open" THEN open(k, th, file)
  ELSE IF op = "filesize" THEN filesize(k, th, fd)
  ELSE IF op = "read" THEN read(k, th, fd, SetMin(IoSizes))
  ELSE IF op = "write"
  THEN write(k, th, fd, Buffer(SetMin(IoSizes)), SetMin(IoSizes))
  ELSE IF op = "seek" THEN seek(k, th, fd, SetMin(SeekPositions))
  ELSE IF op = "tell" THEN tell(k, th, fd)
  ELSE IF op = "close" THEN close(k, th, fd)
  ELSE Returns(k, th, 3, NoGetDir)

\* lock_release (&fs_lock) and the return to the user; the kernel stops
\* when the call has panicked.
lock_release(t, x, op) ==
  IF x.k.m.panic THEN Halt
  ELSE /\ disk' = x.k.m.disk
       /\ free_map' = x.k.m.free_map
       /\ open_inodes' = x.k.inodes
       /\ panic' = FALSE
       /\ threads' = [threads EXCEPT ![t] = [x.th EXCEPT !.pc = "user"]]
       /\ fs_lock' = NoThread
       /\ last' = [NoOp EXCEPT !.op = op, !.thread = t, !.gd = x.gd]
       /\ UNCHANGED <<files, steps, openers, unlinked>>

LockedCall(t, op, file, fd) ==
  /\ Locked(t)
  /\ lock_release(t, Between(Kernel, threads[t], op, file, fd), op)

LockNext ==
  \/ \E t \in Threads : lock_wait(t)
  \/ \E t \in Threads : lock_take(t)
  \/ \E t \in Threads, op \in LockedSyscalls, file \in LockPaths, fd \in Fds :
        LockedCall(t, op, file, fd)

\* The thread that holds the lock goes on with its call; the thread that
\* waits gets the lock when it is free again and again.
Fairness ==
  \A t \in Threads :
    /\ SF_vars(lock_take(t))
    /\ WF_vars(\E op \in LockedSyscalls, file \in LockPaths, fd \in Fds :
                 LockedCall(t, op, file, fd))

LockSpec == FsInit /\ [][LockNext]_vars /\ Fairness

\* A thread that leaves its call no longer holds fs_lock, and a thread that
\* calls lock_acquire does not hold it.
LockReleased(t) ==
  (threads[t].pc = "locked" /\ threads'[t].pc = "user") => fs_lock' # t

NotHeldTwice(t) == threads'[t].pc = "waiting" => fs_lock' # t

Waiting(t) == threads[t].pc = "waiting"
Acquired(t) == threads[t].pc = "locked" /\ fs_lock = t

\* C29.  Lock discipline and progress: every system call that acquires
\* fs_lock releases it before it returns and never tries to acquire it
\* while it holds it; and under a fair scheduler every thread blocked on
\* fs_lock eventually acquires it, so that no thread waits for ever.
C29_LockProgress ==
  /\ [][\A t \in Threads : LockReleased(t) /\ NotHeldTwice(t)]_vars
  /\ \A t \in Threads : Waiting(t) ~> Acquired(t)


====
